---------------------------- MODULE Spec2Model ----------------------------
(***************************************************************************)
(* Scene generation pipeline of the Motion AI video engine                 *)
(* (src/src/lib/videoEngine.js, second listing, lines 790-2084) with its   *)
(* budget governor (src/src/lib/budgetManager.js).                         *)
(*                                                                         *)
(* Money is counted in integer units of 5e-8 dollar, the largest unit in   *)
(* which the price of one gpt-4o-mini token (1.5e-7 dollar) and every      *)
(* video price per second are whole numbers.  Sums are exact; the          *)
(* rounding of JavaScript doubles is not modelled.                         *)
(*                                                                         *)
(* Wall-clock time is abstracted to one event, ElapseMinute: more than     *)
(* 60 s pass.  A circuit-breaker record carries "expired" (its             *)
(* lastFailure is more than resetTimeout ago) and a rate limiter carries   *)
(* the number of requests inside the last minute ("recent") and the        *)
(* number older than a minute and younger than an hour ("old").            *)
(***************************************************************************)
EXTENDS Integers, Sequences, FiniteSets, TLC

VARIABLES
    req,                     \* the argument object of createMovie
    pc,                      \* position of createMovie
    rejectReason,            \* why createMovie rejected ("none" while it has not)
    totalScenes,             \* createMovie's totalScenes
    calculatedSceneDuration, \* createMovie's calculatedSceneDuration
    task,                    \* scene number -> state of that scene's task
    scenes,                  \* createMovie's scenes array, in push order
    failedScenes,            \* ProgressTracker.failedScenes (scene numbers)
    currentCost,             \* BudgetManager.currentCost
    failures,                \* CircuitBreaker.failures
    rateLimiters,            \* BudgetManager.rateLimiters
    aborted,                 \* abortSignal.aborted
    result,                  \* the RunResult createMovie resolves with
    calls,                   \* history: remote calls issued, <<scene, kind>>
    notStartedAtTrip,        \* history: scenes whose task had not started when the token tripped
    lastTrack,               \* history: outcome of the latest trackCost call
    recordCalls,             \* history: payloads handed to saveMovieRecord
    storySoFar,              \* createMovie's storySoFar: the scenes whose summary it holds
    previousSceneEnd,        \* createMovie's previousSceneEnd: the scene whose hook it holds (0: null)
    scriptRequests,          \* history: the script requests issued and what each carried
    waits,                   \* history: seconds of every inter-scene wait issued
    faults,                  \* history: answers of the environment other than the usual one
    clock,                   \* Date.now(), in seconds
    cbFailures,              \* CircuitBreaker.failures with its time stamps: model -> [count, lastFailure]
    cbLog,                   \* history: per model, the recordFailure calls made and when
    requests,                \* BudgetManager.rateLimiters with its time stamps: key -> times of the requests kept
    rlLog,                   \* history: per key, the times of every allowed request
    jobs,                    \* GenerationJobsManager.jobs: jobId -> entry
    jobLog,                  \* history: the latest change of the registry, and what abortJob returned
    snap                     \* one call of a backend: the duration asked for and the durations used

pipelineVars == <<req, pc, rejectReason, totalScenes, calculatedSceneDuration, task,
          scenes, failedScenes, currentCost, failures, rateLimiters, aborted,
          result, calls, notStartedAtTrip, lastTrack, recordCalls, storySoFar,
          previousSceneEnd, scriptRequests, waits, faults>>

\* the job registry
jobVars == <<jobs, jobLog>>

\* the state of the components when they are studied on their own, with
\* the clock explicit
clockVars == <<clock, cbFailures, cbLog, requests, rlLog, jobVars, snap>>

vars == <<pipelineVars, clockVars>>

---------------------------------------------------------------------------
(* Program constants *)

\* MAX_BUDGET = 5.0 dollar, in units of 5e-8 dollar
MAX_BUDGET == 100000000

\* OPENAI_COST_PER_1K_TOKENS["gpt-4o-mini"] = 0.00015 dollar per 1000 tokens
OpenAIUnitsPerToken == 3

\* the "|| 0.00015" fallback of trackOpenAICost and calculateEstimatedCost
OpenAIFallbackCost == 3000

estimatedTokensPerScene == 500

MIN_DURATION == 4

MAX_TOTAL_DURATION == 3600

MAX_PARALLEL_SCENES == 2

MAX_RETRIES == 3

failureThreshold == 3

FREE_ACCOUNT_DELAY == 12

Veo == "google/veo-3.1-fast"

Luma == "luma/dream-machine"

Svd == "stability-ai/svd"

Zeroscope == "anotherjesse/zeroscope-v2-xl"

Unknown == "unknown/model"

KnownModels == {Veo, Luma, Svd, Zeroscope}

ModelNames == KnownModels \cup {Unknown}

DefaultChain == <<Veo, Luma, Svd, Zeroscope>>

\* VIDEO_MODELS: maxDuration, allowedDurations (empty when absent),
\* costPerSecond in units, enabled.
VIDEO_MODELS(m) ==
    CASE m = Veo -> [maxDuration |-> 8, allowedDurations |-> <<4, 6, 8>>,
                     costPerSecond |-> 300000, enabled |-> TRUE]
      [] m = Luma -> [maxDuration |-> 30, allowedDurations |-> <<>>,
                      costPerSecond |-> 200000, enabled |-> TRUE]
      [] m = Svd -> [maxDuration |-> 30, allowedDurations |-> <<>>,
                     costPerSecond |-> 160000, enabled |-> TRUE]
      [] m = Zeroscope -> [maxDuration |-> 30, allowedDurations |-> <<>>,
                           costPerSecond |-> 140000, enabled |-> TRUE]

\* RATE_LIMITS
RATE_LIMITS(service) ==
    IF service = "openai"
    THEN [requestsPerMinute |-> 60, requestsPerHour |-> 5000]
    ELSE [requestsPerMinute |-> 10, requestsPerHour |-> 500]

ScriptLimiter == <<"openai", "script-generation">>

LimiterIds == {ScriptLimiter} \cup {<<"replicate", m>> : m \in KnownModels}

---------------------------------------------------------------------------
(* Arithmetic helpers *)

Abs(x) == IF x < 0 THEN -x ELSE x

Max(a, b) == IF a >= b THEN a ELSE b

Min(a, b) == IF a <= b THEN a ELSE b

\* Math.ceil(a / b) for a >= 0, b > 0
CeilDiv(a, b) == (a + b - 1) \div b

\* the reduce with <= : a tie goes to the later, larger duration
RECURSIVE ReduceClosestTieUp(_, _, _, _)
ReduceClosestTieUp(allowed, d, prev, j) ==
    IF j > Len(allowed) THEN prev
    ELSE ReduceClosestTieUp(allowed, d,
                            IF Abs(allowed[j] - d) <= Abs(prev - d) THEN allowed[j] ELSE prev,
                            j + 1)

\* allowed.reduce((prev, curr) => |curr - d| < |prev - d| ? curr : prev)
RECURSIVE ReduceClosest(_, _, _, _)
ReduceClosest(allowed, d, prev, j) ==
    IF j > Len(allowed) THEN prev
    ELSE ReduceClosest(allowed, d,
                       IF Abs(allowed[j] - d) < Abs(prev - d) THEN allowed[j] ELSE prev,
                       j + 1)

ClosestAllowed(allowed, d) == ReduceClosest(allowed, d, allowed[1], 2)

---------------------------------------------------------------------------
(* Budget governor: budgetManager.js *)

\* BudgetManager.getModelCost: unknown names are priced as zeroscope
getModelCost(m) ==
    IF m \in KnownModels THEN VIDEO_MODELS(m).costPerSecond
    ELSE VIDEO_MODELS(Zeroscope).costPerSecond

\* (tokens / 1000) * OPENAI_COST_PER_1K_TOKENS[model] || 0.00015
OpenAICost(tokens) ==
    IF tokens * OpenAIUnitsPerToken = 0 THEN OpenAIFallbackCost
    ELSE tokens * OpenAIUnitsPerToken

\* BudgetManager.calculateEstimatedCost
calculateEstimatedCost(totalDurationSeconds, sceneDuration, modelName) ==
    LET n == CeilDiv(totalDurationSeconds, sceneDuration)
        videoCost == n * sceneDuration * getModelCost(modelName)
        openaiCost == OpenAICost(n * estimatedTokensPerScene)
    IN  [video |-> videoCost,
         openai |-> openaiCost,
         total |-> videoCost + openaiCost,
         scenes |-> n]

\* BudgetManager.isWithinBudget
isWithinBudget(estimatedCost) == estimatedCost.total <= MAX_BUDGET

\* BudgetManager.getBudgetStatus().remaining
Remaining(cost) == MAX_BUDGET - cost

\* trackCost with the comparison written >= : a call that lands exactly on
\* the ceiling throws
trackCostAtCeiling(cost, amount) ==
    LET c == cost + amount
    IN  [currentCost |-> c, raised |-> c >= MAX_BUDGET, returned |-> c]

\* BudgetManager.trackCost: the sum is stored before it is compared.
\* The result carries the new currentCost and whether the call threw.
trackCost(cost, amount) ==
    LET c == cost + amount
    IN  [currentCost |-> c, raised |-> c > MAX_BUDGET, returned |-> c]

\* BudgetManager.trackOpenAICost
trackOpenAICost(cost, tokens) == trackCost(cost, OpenAICost(tokens))

\* BudgetManager.trackReplicateCost
trackReplicateCost(cost, duration, modelName) ==
    trackCost(cost, duration * getModelCost(modelName))

\* BudgetManager.checkRateLimit on one limiter record [recent, old]:
\* requests younger than an hour are kept, those younger than a minute are
\* counted against requestsPerMinute, all of them against requestsPerHour,
\* and an allowed request is recorded.
checkRateLimit(rl, service, identifier) ==
    LET id == <<service, identifier>>
        rec == rl[id]
        limits == RATE_LIMITS(service)
    IN  IF rec.recent >= limits.requestsPerMinute
        THEN [allowed |-> FALSE, rl |-> rl]
        ELSE IF rec.recent + rec.old >= limits.requestsPerHour
        THEN [allowed |-> FALSE, rl |-> rl]
        ELSE [allowed |-> TRUE,
              rl |-> [rl EXCEPT ![id] = [rec EXCEPT !.recent = @ + 1]]]

---------------------------------------------------------------------------
(* Circuit breaker: videoEngine.js, class CircuitBreaker.                  *)
(* failures[m] = [count, expired]; count = 0 stands for "no record".       *)

NoRecord == [count |-> 0, expired |-> FALSE]

\* a breaker that lets every call through
canExecuteAlways(f, m) == [ok |-> TRUE, failures |-> f]

\* CircuitBreaker.canExecute: the answer and the map it leaves behind
canExecute(f, m) ==
    IF f[m].count = 0 THEN [ok |-> TRUE, failures |-> f]
    ELSE IF f[m].expired THEN [ok |-> TRUE, failures |-> [f EXCEPT ![m] = NoRecord]]
    ELSE [ok |-> f[m].count < failureThreshold, failures |-> f]

\* CircuitBreaker.recordSuccess
recordSuccess(f, m) == [f EXCEPT ![m] = NoRecord]

\* CircuitBreaker.recordFailure, n times in a row (n >= 0)
recordFailure(f, m, n) ==
    IF n = 0 THEN f
    ELSE [f EXCEPT ![m] = [count |-> @.count + n, expired |-> FALSE]]

---------------------------------------------------------------------------
(* The video stage: generateSceneVideo                                     *)

\* modelChain = null is written Null
Null == <<"null">>

\* (modelChain || [default four]).filter((m) => VIDEO_MODELS[m]?.enabled)
RECURSIVE FilterEnabled(_)
FilterEnabled(chain) ==
    IF chain = <<>> THEN <<>>
    ELSE IF Head(chain) \in KnownModels /\ VIDEO_MODELS(Head(chain)).enabled
         THEN <<Head(chain)>> \o FilterEnabled(Tail(chain))
         ELSE FilterEnabled(Tail(chain))

Models(modelChain) ==
    FilterEnabled(IF modelChain = Null THEN DefaultChain ELSE modelChain)

\* actualDuration: clamp to [MIN_DURATION, maxDuration], then the closest
\* allowed duration when the model lists allowedDurations
ActualDuration(m, duration) ==
    LET clamped == Min(Max(duration, MIN_DURATION), VIDEO_MODELS(m).maxDuration)
    IN  IF VIDEO_MODELS(m).allowedDurations # <<>>
        THEN ClosestAllowed(VIDEO_MODELS(m).allowedDurations, clamped)
        ELSE clamped

\* Durations that need not be whole seconds are counted in tenths of a
\* second.
TenthsPerSecond == 10

InTenths(seconds) == [x \in 1..Len(seconds) |-> seconds[x] * TenthsPerSecond]

\* actualDuration of generateSceneVideo (lines 1427-1441), in tenths
ActualTenths(m, duration) ==
    LET clamped == Min(Max(duration, MIN_DURATION * TenthsPerSecond),
                       VIDEO_MODELS(m).maxDuration * TenthsPerSecond)
    IN  IF VIDEO_MODELS(m).allowedDurations # <<>>
        THEN ClosestAllowed(InTenths(VIDEO_MODELS(m).allowedDurations), clamped)
        ELSE clamped

\* veo's builder with its thresholds exclusive
VeoValidDurationExclusive(duration) ==
    IF duration < 5 * TenthsPerSecond THEN 4 * TenthsPerSecond
    ELSE IF duration < 7 * TenthsPerSecond THEN 6 * TenthsPerSecond
    ELSE 8 * TenthsPerSecond

\* validDuration of veo's buildInput (lines 865-881), in tenths
VeoValidDuration(duration) ==
    IF duration <= 5 * TenthsPerSecond THEN 4 * TenthsPerSecond
    ELSE IF duration <= 7 * TenthsPerSecond THEN 6 * TenthsPerSecond
    ELSE 8 * TenthsPerSecond

\* createMovie's snap of the scene duration to the first backend's allowed
\* durations (lines 1777-1785), in tenths
PlannedTenths(m, duration) ==
    IF VIDEO_MODELS(m).allowedDurations # <<>>
    THEN ClosestAllowed(InTenths(VIDEO_MODELS(m).allowedDurations), duration)
    ELSE duration

\* An error message as the words and numbers it is made of, in lower case
\* (the patterns of extractRetryTime ignore case): a word is [word, num = -1],
\* a run of digits is [word = "#", num].
Word(s) == [word |-> s, num |-> -1]

Num(n) == [word |-> "#", num |-> n]

\* the positions of msg where the words ws are followed by a number (and
\* that by the words after, if any)
Matches(msg, ws, after) ==
    {j \in 1..Len(msg) :
        /\ j + Len(ws) + Len(after) <= Len(msg)
        /\ \A x \in 1..Len(ws) : msg[j + x - 1] = Word(ws[x])
        /\ msg[j + Len(ws)].word = "#"
        /\ \A x \in 1..Len(after) : msg[j + Len(ws) + x] = Word(after[x])}

\* the number of the leftmost match
Captured(msg, ws, hits) ==
    msg[(CHOOSE j \in hits : \A x \in hits : j <= x) + Len(ws)].num

\* extractRetryTime without its default: every hint is taken as 10 s
extractRetryTimeFixed(msg) == 10

\* extractRetryTime (lines 1374-1379): the first of the three patterns that
\* matches gives the seconds, 10 when none does
extractRetryTime(msg) ==
    LET a == Matches(msg, <<"retry_after">>, <<>>)
        b == Matches(msg, <<"wait">>, <<"seconds">>)
        c == Matches(msg, <<"retry", "after">>, <<>>)
    IN  IF a # {} THEN Captured(msg, <<"retry_after">>, a)
        ELSE IF b # {} THEN Captured(msg, <<"wait">>, b)
        ELSE IF c # {} THEN Captured(msg, <<"retry", "after">>, c)
        ELSE 10

\* wait(retryAfter + 1)
BackoffSeconds(msg) == extractRetryTime(msg) + 1

\* The 429 errors the video service answers with: "429 too many requests",
\* and "429 too many requests, retry after 3".
Messages429 == {"bare", "hint"}

MessageText(id) ==
    LET bare == <<Num(429), Word("too"), Word("many"), Word("requests")>>
    IN  IF id = "hint"
        THEN bare \o <<Word("retry"), Word("after"), Num(3)>>
        ELSE bare

\* the checks reading a property the signal does not have: always falsy
AbortNeverObserved == FALSE

\* abortSignal?.aborted: false when the caller passed no signal
AbortObserved == req.hasSignal /\ aborted

\* error.message?.includes("aborted"), by kind of error.  The fetch of
\* saveVideo is aborted by its own 30 s timer (controller.abort()), and the
\* platform's AbortError reads "This operation was aborted".
IncludesAborted(err) == err \in {"GenerationAborted", "FetchAbortError"}

---------------------------------------------------------------------------
(* The state the scene pipeline changes, as one record *)

World ==
    [pc |-> pc, rejectReason |-> rejectReason, task |-> task, scenes |-> scenes,
     failedScenes |-> failedScenes, currentCost |-> currentCost,
     failures |-> failures, rateLimiters |-> rateLimiters, result |-> result,
     calls |-> calls, lastTrack |-> lastTrack, recordCalls |-> recordCalls,
     storySoFar |-> storySoFar, previousSceneEnd |-> previousSceneEnd,
     scriptRequests |-> scriptRequests, waits |-> waits]

SetWorld(w) ==
    /\ pc' = w.pc
    /\ rejectReason' = w.rejectReason
    /\ task' = w.task
    /\ scenes' = w.scenes
    /\ failedScenes' = w.failedScenes
    /\ currentCost' = w.currentCost
    /\ failures' = w.failures
    /\ rateLimiters' = w.rateLimiters
    /\ result' = w.result
    /\ calls' = w.calls
    /\ lastTrack' = w.lastTrack
    /\ recordCalls' = w.recordCalls
    /\ storySoFar' = w.storySoFar
    /\ previousSceneEnd' = w.previousSceneEnd
    /\ scriptRequests' = w.scriptRequests
    /\ waits' = w.waits

\* A scene task: where it stands, the chain position k and the nesting
\* depth of the video invocation it awaits, the error that ended it, and as
\* history the positions called (tried), the positions with an entry in the
\* outermost errors array (errors), the position that first yielded a valid
\* URL (urlFrom) and the position whose clip the video stage returned (clip).
\* msg and wait are the last 429 message received and the seconds of the
\* back-off it started; script is what generateSceneScript returned ("model":
\* the text backend's script, "filler": the fallback, "none": nothing) and
\* textError whether the text backend's call failed; scriptDenied whether
\* the rate limiter denied the script call; promptHook holds, once the video
\* prompt is built, the previousSceneEnd that buildVideoPrompt was given.
IdleTask == [st |-> "idle", k |-> 0, depth |-> 0, err |-> "none",
             tried |-> <<>>, errors |-> <<>>, urlFrom |-> 0, clip |-> 0,
             msg |-> "none", wait |-> 0, script |-> "none", textError |-> FALSE,
             scriptDenied |-> FALSE, promptHook |-> <<>>]

Settled(t) == t.st \in {"resolved", "rejected"}

\* a trackCost call made by the pipeline: the cost is stored, the outcome noted
Tracked(w, r, amount) ==
    [w EXCEPT !.currentCost = r.currentCost,
              !.lastTrack = [n |-> @.n + 1, amount |-> amount, before |-> w.currentCost,
                             raised |-> r.raised, returned |-> r.returned]]

\* the scene task's catch block (lines 1919-1932)
SceneFail(w, i, err) ==
    IF IncludesAborted(err) \/ AbortObserved
    THEN [w EXCEPT !.scenes = Append(@, [scene |-> i, success |-> FALSE, aborted |-> TRUE]),
                   !.task[i] = [@ EXCEPT !.st = "rejected", !.err = err]]
    ELSE [w EXCEPT !.failedScenes = Append(@, i),
                   !.scenes = Append(@, [scene |-> i, success |-> FALSE, aborted |-> FALSE]),
                   !.task[i] = [@ EXCEPT !.st = "resolved", !.err = err]]

\* the end of the scene task's try block (lines 1897-1918)
SceneSuccess(w, i) ==
    [w EXCEPT !.storySoFar = Append(@, i),
              !.previousSceneEnd = i,
              !.scenes = Append(@, [scene |-> i, success |-> TRUE, aborted |-> FALSE]),
              !.task[i] = [@ EXCEPT !.st = "resolved"]]

\* saveVideo up to its first await: a URL already in the blob store is
\* returned as it is, any other is fetched
SaveStart(w, i, stored) ==
    IF stored THEN SceneSuccess(w, i)
    ELSE [w EXCEPT !.calls = @ \cup {<<i, "download">>},
                   !.task[i] = [@ EXCEPT !.st = "save"]]

\* errors.push({ model, error }) in the outermost invocation
Pushed(w, i, k) == [w EXCEPT !.task[i].errors = Append(@, k)]

\* The for loop of generateSceneVideo's outermost invocation from chain
\* position k on, up to its next await: a backend is skipped when its
\* circuit is open, when the rate limiter denies it or when the remaining
\* budget is below its price; the first backend that is not skipped is
\* called.
RECURSIVE Advance(_, _, _)
Advance(w, i, k) ==
    LET models == Models(req.modelChain)
    IN  IF k > Len(models) THEN SceneFail(w, i, "AllFailed")
        ELSE IF AbortObserved THEN SceneFail(w, i, "GenerationAborted")
        ELSE LET m == models[k]
                 ce == canExecute(w.failures, m)
                 w1 == [w EXCEPT !.failures = ce.failures]
                 rl == checkRateLimit(w1.rateLimiters, "replicate", m)
                 w2 == [w1 EXCEPT !.rateLimiters = rl.rl]
                 estimatedCost == VIDEO_MODELS(m).costPerSecond
                                    * ActualDuration(m, calculatedSceneDuration)
             IN  IF ~ce.ok THEN Advance(Pushed(w1, i, k), i, k + 1)
                 ELSE IF ~rl.allowed THEN Advance(Pushed(w1, i, k), i, k + 1)
                 ELSE IF Remaining(w2.currentCost) < estimatedCost
                      THEN Advance(Pushed(w2, i, k), i, k + 1)
                 ELSE [w2 EXCEPT !.calls = @ \cup {<<i, "video">>},
                                 !.task[i] = [@ EXCEPT !.st = "video", !.k = k, !.depth = 0,
                                                       !.tried = Append(@, k)]]

\* generateSceneVideo from its entry to its first await
VideoStart(w, i) ==
    IF Len(Models(req.modelChain)) = 0 THEN SceneFail(w, i, "NoEnabledModels")
    ELSE IF AbortObserved THEN SceneFail(w, i, "GenerationAborted")
    ELSE Advance(w, i, 1)

\* An invocation nested d deep (retryCount = d >= 1, chain [m]) ended by
\* throwing, or the invocation d - 1 deep threw after its wait: each of the
\* d enclosing invocations catches it as retryError and records a failure
\* of m, and the outermost goes on with the next backend.
Unwind(w, i, k, d) ==
    LET m == Models(req.modelChain)[k]
    IN  Advance(Pushed([w EXCEPT !.failures = recordFailure(@, m, d)], i, k), i, k + 1)

\* The retry invocation (retryCount = d, chain [m]) up to its first await
RetryStart(w, i, k, d) ==
    LET m == Models(req.modelChain)[k]
        ce == canExecute(w.failures, m)
        w1 == [w EXCEPT !.failures = ce.failures]
        rl == checkRateLimit(w1.rateLimiters, "replicate", m)
        w2 == [w1 EXCEPT !.rateLimiters = rl.rl]
        estimatedCost == VIDEO_MODELS(m).costPerSecond
                           * ActualDuration(m, calculatedSceneDuration)
    IN  IF ~ce.ok THEN Unwind(w1, i, k, d)
        ELSE IF ~rl.allowed THEN Unwind(w1, i, k, d)
        ELSE IF Remaining(w2.currentCost) < estimatedCost THEN Unwind(w2, i, k, d)
        ELSE [w2 EXCEPT !.calls = @ \cup {<<i, "video">>},
                        !.task[i] = [@ EXCEPT !.st = "video", !.k = k, !.depth = d,
                                              !.tried = Append(@, k)]]

---------------------------------------------------------------------------
(* The scene task built by createMovie (lines 1837-1934), one operator per *)
(* stretch of code between two awaits                                      *)

\* after generateSceneScript returned a script (the model's or the filler):
\* buildVideoPrompt(sceneParts, characters, previousSceneEnd, baseStoryPrompt)
\* at line 1876: previousSceneEnd is read after the await of the script
buildVideoPrompt(w, i) ==
    [w EXCEPT !.task[i].promptHook = <<w.previousSceneEnd>>]

\* prompt assembly, the abort check of line 1882, generateSceneVideo
AfterScript(w, i) ==
    LET w1 == buildVideoPrompt(w, i)
    IN  IF AbortObserved THEN SceneFail(w1, i, "GenerationAborted")
        ELSE VideoStart(w1, i)

\* the scene's start with a limiter denial answered by the filler script
StartSceneFillerOnDenial(w, i) ==
    IF AbortObserved
    THEN [w EXCEPT !.task[i] = [@ EXCEPT !.st = "rejected", !.err = "GenerationAborted"]]
    ELSE LET rl == checkRateLimit(w.rateLimiters, "openai", "script-generation")
         IN  IF ~rl.allowed
             THEN AfterScript([w EXCEPT !.task[i].scriptDenied = TRUE,
                                        !.task[i].script = "filler"], i)
             ELSE [w EXCEPT !.rateLimiters = rl.rl,
                            !.calls = @ \cup {<<i, "script">>},
                            !.scriptRequests =
                                Append(@, [scene |-> i,
                                           storySoFar |-> w.storySoFar,
                                           previousSceneEnd |-> w.previousSceneEnd,
                                           finalized |-> {j \in 1..totalScenes :
                                                             Settled(w.task[j])}]),
                            !.task[i] = [@ EXCEPT !.st = "script"]]

\* from the call of sceneFns[i]() to the await inside generateSceneScript
StartScene(w, i) ==
    IF AbortObserved
    THEN [w EXCEPT !.task[i] = [@ EXCEPT !.st = "rejected", !.err = "GenerationAborted"]]
    ELSE LET rl == checkRateLimit(w.rateLimiters, "openai", "script-generation")
         IN  IF ~rl.allowed
             THEN SceneFail([w EXCEPT !.task[i].scriptDenied = TRUE], i, "RateLimit")
             ELSE [w EXCEPT !.rateLimiters = rl.rl,
                            !.calls = @ \cup {<<i, "script">>},
                            !.scriptRequests =
                                Append(@, [scene |-> i,
                                           storySoFar |-> w.storySoFar,
                                           previousSceneEnd |-> w.previousSceneEnd,
                                           finalized |-> {j \in 1..totalScenes :
                                                             Settled(w.task[j])}]),
                            !.task[i] = [@ EXCEPT !.st = "script"]]

\* the text backend answered.  A budget error of trackOpenAICost is caught
\* by generateSceneScript's own catch, which returns the filler script; so
\* is any remote error whose message does not contain "Rate limit".
ScriptResolved(w, i, outcome, tokens) ==
    CASE outcome = "usage" ->
            LET r == trackOpenAICost(w.currentCost, tokens)
                w1 == Tracked(w, r, OpenAICost(tokens))
            IN  AfterScript([w1 EXCEPT !.task[i].script =
                                           IF r.raised THEN "filler" ELSE "model"], i)
      [] outcome = "noUsage" -> AfterScript([w EXCEPT !.task[i].script = "model"], i)
      [] outcome = "error" ->
            AfterScript([w EXCEPT !.task[i].script = "filler",
                                  !.task[i].textError = TRUE], i)
      [] outcome = "rateLimitError" ->
            SceneFail([w EXCEPT !.task[i].textError = TRUE], i, "RateLimit")

\* the video backend answered the invocation nested task[i].depth deep;
\* msg names the message of a 429 error, which is retried while retryCount
\* is below maxRetries
VideoAnswered(w, i, outcome, msg, maxRetries) ==
    LET k == w.task[i].k
        d == w.task[i].depth
        m == Models(req.modelChain)[k]
        duration == ActualDuration(m, calculatedSceneDuration)
        r == trackReplicateCost(w.currentCost, duration, m)
        w0 == [w EXCEPT !.task[i].urlFrom = IF @ = 0 THEN k ELSE @]
        w1 == Tracked(w0, r, duration * getModelCost(m))
    IN  CASE outcome \in {"url", "storedUrl"} ->
                IF r.raised
                THEN IF d = 0 THEN SceneFail(w1, i, "BudgetExceeded")
                     ELSE Unwind(w1, i, k, d)
                ELSE SaveStart([w1 EXCEPT !.failures = recordSuccess(@, m),
                                          !.task[i].clip = k], i,
                               outcome = "storedUrl")
          [] outcome = "429" /\ d < maxRetries ->
                [w EXCEPT !.task[i] = [@ EXCEPT !.st = "retryWait", !.msg = msg,
                                                !.wait = BackoffSeconds(MessageText(msg))]]
          [] OTHER -> Unwind(w, i, k, d + 1)

\* the stage with one more retry than MAX_RETRIES
VideoResolvedOneMore(w, i, outcome, msg) ==
    VideoAnswered(w, i, outcome, msg, MAX_RETRIES + 1)

\* retryCount < MAX_RETRIES
VideoResolved(w, i, outcome, msg) == VideoAnswered(w, i, outcome, msg, MAX_RETRIES)

\* wait(retryAfter + 1) is over in the invocation nested task[i].depth deep
RetryWaitOver(w, i) ==
    LET k == w.task[i].k
        d == w.task[i].depth
    IN  IF AbortObserved
        THEN IF d = 0 THEN SceneFail(w, i, "GenerationAborted")
             ELSE Unwind(w, i, k, d)
        ELSE RetryStart(w, i, k, d + 1)

\* saveVideo's fetch and upload ended
SaveResolved(w, i, outcome) ==
    CASE outcome = "saved" -> SceneSuccess(w, i)
      [] outcome = "timeout" -> SceneFail(w, i, "FetchAbortError")
      [] OTHER -> SceneFail(w, i, "SaveError")

---------------------------------------------------------------------------
(* createMovie: scheduling and aggregation (lines 1936-2062)               *)

NoResult == [state |-> "none"]

\* enableParallel && totalScenes > 1 && !(totalScenes > 2)
Mode ==
    IF req.enableParallel /\ totalScenes > 1 /\ ~(totalScenes > 2)
    THEN "par" ELSE "seq"

Successful(ss) == SelectSeq(ss, LAMBDA s : s.success)

\* the object createMovie returns
RunResult(w, successfulScenes, dbRecord) ==
    [state |-> "returned",
     totalScenes |-> totalScenes,
     successfulScenes |-> Len(successfulScenes),
     failedScenes |-> Len(w.failedScenes),
     scenes |-> successfulScenes,
     failed |-> w.failedScenes,
     dbRecord |-> dbRecord]

\* lines 1979-2029: saveMovieRecord is awaited when a scene succeeded or
\* the run was aborted; otherwise the result is returned at once
Aggregate(w) ==
    LET wasAborted == AbortObserved
        successfulScenes == Successful(w.scenes)
    IN  IF Len(successfulScenes) > 0 \/ wasAborted
        THEN [w EXCEPT !.pc = "record",
                       !.result = [state |-> "pending", scenes |-> successfulScenes],
                       !.recordCalls = Append(@, [scenes |-> successfulScenes,
                                                  wasAborted |-> wasAborted])]
        ELSE [w EXCEPT !.pc = "resolved",
                       !.result = RunResult(w, successfulScenes, FALSE)]

\* the sequential loop without its wait: the next scene function is called
\* as soon as scene i's task settled
SeqContinueNoDelay(w, i) ==
    IF w.task[i].st = "rejected"
    THEN [w EXCEPT !.pc = "rejected", !.rejectReason = "aborted"]
    ELSE IF i < totalScenes /\ ~AbortObserved
         THEN StartScene([w EXCEPT !.pc = "scenes"], i + 1)
    ELSE Aggregate(w)

\* the sequential loops (lines 1947-1958, 1965-1976) after scene i's task
\* settled: a rejection leaves createMovie; otherwise the 12 s delay, or the
\* end of the loop
SeqContinue(w, i) ==
    IF w.task[i].st = "rejected"
    THEN [w EXCEPT !.pc = "rejected", !.rejectReason = "aborted"]
    ELSE IF i < totalScenes /\ ~AbortObserved
         THEN [w EXCEPT !.pc = "delay", !.waits = Append(@, FREE_ACCOUNT_DELAY)]
    ELSE Aggregate(w)

\* one iteration of the sequential loop, for scene i
SeqIterate(w, i) ==
    IF AbortObserved THEN Aggregate(w)
    ELSE LET w1 == StartScene([w EXCEPT !.pc = "scenes"], i)
         IN  IF Settled(w1.task[i]) THEN SeqContinue(w1, i) ELSE w1

\* processScenesInParallel's running set: the tasks started and not settled
running(w) == {j \in 1..totalScenes : w.task[j].st \notin {"idle", "resolved", "rejected"}}

\* the for loop of processScenesInParallel from scene i on, up to its next
\* await: a task is started while fewer than maxParallel are running
RECURSIVE ParStartFrom(_, _)
ParStartFrom(w, i) ==
    IF i > totalScenes THEN w
    ELSE IF Cardinality(running(w)) >= MAX_PARALLEL_SCENES THEN w
    ELSE ParStartFrom(StartScene(w, i), i + 1)

\* a loop that goes on to the aggregation as soon as one task has settled
ParContinueFirstSettled(w) ==
    IF \E j \in 1..totalScenes : Settled(w.task[j]) THEN Aggregate(w) ELSE w

\* a loop that never leaves its wait for the running tasks
ParContinueStuck(w) == w

\* processScenesInParallel once a task settled.  While scene functions are
\* left the loop wakes from Promise.race: it breaks when the token has
\* tripped (Promise.allSettled is then skipped) and starts the next tasks
\* otherwise.  With none left, Promise.allSettled(running) resolves when
\* every started task has; the results are dropped.
ParContinue(w) ==
    LET idle == {j \in 1..totalScenes : w.task[j].st = "idle"}
    IN  IF idle # {} /\ AbortObserved THEN Aggregate(w)
        ELSE LET w1 == IF idle # {}
                       THEN ParStartFrom(w, CHOOSE j \in idle : \A x \in idle : j <= x)
                       ELSE w
             IN  IF \A j \in 1..totalScenes : Settled(w1.task[j])
                 THEN Aggregate(w1) ELSE w1

ParStart(w) ==
    IF AbortObserved THEN Aggregate(w)
    ELSE ParContinue(ParStartFrom([w EXCEPT !.pc = "scenes"], 1))

\* what follows a step of scene i's task
AfterTask(w, i) ==
    IF ~Settled(w.task[i]) THEN w
    ELSE IF Mode = "seq" THEN SeqContinue(w, i) ELSE ParContinue(w)

\* the next scene of the sequential loop
NextScene == CHOOSE i \in 1..totalScenes :
                 /\ task[i].st = "idle"
                 /\ \A j \in 1..(i - 1) : task[j].st # "idle"

---------------------------------------------------------------------------
(* createMovie: validation and planning (lines 1746-1812)                  *)

\* modelChain?.[0] || "google/veo-3.1-fast"
SelectedModelName(r) ==
    IF r.modelChain = Null \/ r.modelChain = <<>> THEN Veo ELSE r.modelChain[1]

\* selectedModel?.allowedDurations, empty when there is none
SelectedAllowed(r) ==
    IF SelectedModelName(r) \in KnownModels
    THEN VIDEO_MODELS(SelectedModelName(r)).allowedDurations
    ELSE <<>>

\* lines 1761-1785
CalculatedSceneDuration(r) ==
    LET allowed == SelectedAllowed(r)
        d0 == IF r.totalDurationSeconds = 30
              THEN (IF allowed # <<>> THEN 6 ELSE 10)
              ELSE r.sceneDuration
    IN  IF allowed # <<>> THEN ClosestAllowed(allowed, d0) ELSE d0

\* line 1812
TotalScenes(r) ==
    Max(1, CeilDiv(r.totalDurationSeconds, CalculatedSceneDuration(r)))

\* the checks without the one of the premise
ValidInputAnyPremise(r) ==
    /\ r.numCharacters > 0
    /\ r.totalDurationSeconds <= MAX_TOTAL_DURATION

\* the three checks of lines 1750-1758
ValidInput(r) ==
    /\ r.premiseLen >= 10
    /\ r.numCharacters > 0
    /\ r.totalDurationSeconds <= MAX_TOTAL_DURATION

\* the estimate compared with the ceiling only
BudgetAcceptsUnderCeiling(r, cost) ==
    isWithinBudget(calculateEstimatedCost(r.totalDurationSeconds,
                       CalculatedSceneDuration(r), SelectedModelName(r)))

\* the two checks of lines 1796-1809
BudgetAccepts(r, cost) ==
    LET estimatedCost == calculateEstimatedCost(r.totalDurationSeconds,
                             CalculatedSceneDuration(r), SelectedModelName(r))
    IN  /\ isWithinBudget(estimatedCost)
        /\ ~(Remaining(cost) < estimatedCost.total)

---------------------------------------------------------------------------
(* The circuit breaker with its clock: class CircuitBreaker (lines         *)
(* 1065-1101), time in seconds                                             *)

\* resetTimeout = 60 * 1000 ms
resetTimeout == 60

\* failures.get(model) || { count: 0, lastFailure: 0 }; count = 0 stands
\* for "no record"
NoFailures == [count |-> 0, lastFailure |-> 0]

\* canExecute with >= : the record is dropped when resetTimeout has just
\* been reached
canExecuteAtTimeout(f, m, now) ==
    IF f[m].count = 0 THEN [ok |-> TRUE, failures |-> f]
    ELSE IF now - f[m].lastFailure >= resetTimeout
         THEN [ok |-> TRUE, failures |-> [f EXCEPT ![m] = NoFailures]]
    ELSE [ok |-> f[m].count < failureThreshold, failures |-> f]

\* CircuitBreaker.canExecute at Date.now() = now: the answer and the map it
\* leaves behind
canExecuteAt(f, m, now) ==
    IF f[m].count = 0 THEN [ok |-> TRUE, failures |-> f]
    ELSE IF now - f[m].lastFailure > resetTimeout
         THEN [ok |-> TRUE, failures |-> [f EXCEPT ![m] = NoFailures]]
    ELSE [ok |-> f[m].count < failureThreshold, failures |-> f]

\* recordSuccess that leaves the record where it is
recordSuccessKept(f, m) == f

\* CircuitBreaker.recordSuccess
recordSuccessAt(f, m) == [f EXCEPT ![m] = NoFailures]

\* CircuitBreaker.recordFailure at Date.now() = now
recordFailureAt(f, m, now) ==
    [f EXCEPT ![m] = [count |-> @.count + 1, lastFailure |-> now]]

---------------------------------------------------------------------------
(* The rate limiter with its clock: BudgetManager.checkRateLimit (lines    *)
(* 82-126), time in seconds.  rq maps a key <<service, identifier>> to the *)
(* requests array of its record, empty when the record is new.             *)

\* checkRateLimit with <= in its two filters: a request exactly a minute
\* (an hour) old is still counted
checkRateLimitInclusive(rq, service, identifier, now) ==
    LET id == <<service, identifier>>
        limits == RATE_LIMITS(service)
        kept == SelectSeq(rq[id], LAMBDA t : now - t <= 60 * 60)
        recentRequests == SelectSeq(kept, LAMBDA t : now - t <= 60)
    IN  IF Len(recentRequests) >= limits.requestsPerMinute
        THEN [allowed |-> FALSE, reason |-> "minute",
              retryAfter |-> 60 - (now - recentRequests[1]),
              requests |-> [rq EXCEPT ![id] = kept]]
        ELSE IF Len(kept) >= limits.requestsPerHour
        THEN [allowed |-> FALSE, reason |-> "hour",
              retryAfter |-> 3600 - (now - kept[1]),
              requests |-> [rq EXCEPT ![id] = kept]]
        ELSE [allowed |-> TRUE, reason |-> "none", retryAfter |-> 0,
              requests |-> [rq EXCEPT ![id] = Append(kept, now)]]

\* BudgetManager.checkRateLimit at Date.now() = now: the answer and the
\* requests it leaves behind
checkRateLimitAt(rq, service, identifier, now) ==
    LET id == <<service, identifier>>
        limits == RATE_LIMITS(service)
        kept == SelectSeq(rq[id], LAMBDA t : now - t < 60 * 60)
        recentRequests == SelectSeq(kept, LAMBDA t : now - t < 60)
    IN  IF Len(recentRequests) >= limits.requestsPerMinute
        THEN [allowed |-> FALSE, reason |-> "minute",
              retryAfter |-> 60 - (now - recentRequests[1]),
              requests |-> [rq EXCEPT ![id] = kept]]
        ELSE IF Len(kept) >= limits.requestsPerHour
        THEN [allowed |-> FALSE, reason |-> "hour",
              retryAfter |-> 3600 - (now - kept[1]),
              requests |-> [rq EXCEPT ![id] = kept]]
        ELSE [allowed |-> TRUE, reason |-> "none", retryAfter |-> 0,
              requests |-> [rq EXCEPT ![id] = Append(kept, now)]]

---------------------------------------------------------------------------
(* The job registry (src/src/lib/generationJobs.js), time in seconds.  An  *)
(* entry carries its AbortController as ctrl (which controller it is) and  *)
(* tripped (its signal's aborted flag).                                    *)

\* job?.completedAt and job?.abortedAt while they are undefined
Undefined == -1

\* this.jobs.get(jobId) of an id the map does not hold, as an entry
NoJob == [status |-> "none", tripped |-> FALSE, ctrl |-> 0, startTime |-> 0,
          completedAt |-> Undefined, abortedAt |-> Undefined]

\* cleanup's default olderThanMs
olderThanMs == 3600

\* the period of the sweep timer set by getJobsManager
sweepEvery == 600

\* a || b || c on time stamps: undefined and 0 are falsy
OrElse(a, b, c) ==
    IF a # Undefined /\ a # 0 THEN a
    ELSE IF b # Undefined /\ b # 0 THEN b
    ELSE c

\* createJob(jobId) with the c-th controller made
createJob(js, jobId, now, c) ==
    [js EXCEPT ![jobId] = [status |-> "running", tripped |-> FALSE, ctrl |-> c,
                           startTime |-> now, completedAt |-> Undefined,
                           abortedAt |-> Undefined]]

\* getAbortSignal(jobId): whether a signal is returned
getAbortSignal(js, jobId) == js[jobId].status # "none"

\* abortJob that trips the token of any entry it finds
abortJobAnyStatus(js, jobId, now) ==
    IF js[jobId].status # "none"
    THEN [jobs |-> [js EXCEPT ![jobId].tripped = TRUE,
                              ![jobId].status = "aborted",
                              ![jobId].abortedAt = now],
          ret |-> TRUE]
    ELSE [jobs |-> js, ret |-> FALSE]

\* abortJob(jobId)
abortJob(js, jobId, now) ==
    IF js[jobId].status = "running"
    THEN [jobs |-> [js EXCEPT ![jobId].tripped = TRUE,
                              ![jobId].status = "aborted",
                              ![jobId].abortedAt = now],
          ret |-> TRUE]
    ELSE [jobs |-> js, ret |-> FALSE]

\* completeJob(jobId)
completeJob(js, jobId, now) ==
    IF js[jobId].status # "none"
    THEN [js EXCEPT ![jobId].status = "completed", ![jobId].completedAt = now]
    ELSE js

\* getJobStatus(jobId): whether a status object is returned
getJobStatus(js, jobId) == js[jobId].status # "none"

\* cleanup that also removes an entry exactly olderThanMs old
cleanupInclusive(js, now, olderThan) ==
    [jobId \in DOMAIN js |->
        IF /\ js[jobId].status \notin {"none", "running"}
           /\ now - OrElse(js[jobId].completedAt, js[jobId].abortedAt,
                           js[jobId].startTime) >= olderThan
        THEN NoJob ELSE js[jobId]]

\* cleanup(olderThanMs)
cleanup(js, now, olderThan) ==
    [jobId \in DOMAIN js |->
        IF /\ js[jobId].status \notin {"none", "running"}
           /\ now - OrElse(js[jobId].completedAt, js[jobId].abortedAt,
                           js[jobId].startTime) > olderThan
        THEN NoJob ELSE js[jobId]]

---------------------------------------------------------------------------
(* Bounds and inputs *)

MaxScenes == 3

\* how many answers of the environment in one run may differ from the usual
\* one (a script with its usage, a clip URL outside the blob store, a
\* successful download and upload, a stored record, no minute passing)
MaxFaults == 2

\* usage.prompt_tokens + usage.completion_tokens of a script
TokenChoices == {1000}

\* a request for n scenes, each as long as the longest veo clip

Chains == {Null, <<Zeroscope, Veo>>, <<Unknown>>}

Request(n, chain, par, sig) ==
    [premiseLen |-> 40, numCharacters |-> 1,
     totalDurationSeconds |-> n * VIDEO_MODELS(Veo).maxDuration,
     sceneDuration |-> VIDEO_MODELS(Veo).maxDuration,
     modelChain |-> chain, enableParallel |-> par, hasSignal |-> sig]

Requests ==
    {Request(n, c, p, TRUE) : n \in 1..MaxScenes, c \in Chains, p \in BOOLEAN}
    \cup {Request(1, Null, TRUE, FALSE),
          [Request(1, Null, TRUE, TRUE) EXCEPT !.premiseLen = 9],
          [Request(1, Null, TRUE, TRUE) EXCEPT !.numCharacters = 0],
          [Request(1, Null, TRUE, TRUE) EXCEPT !.totalDurationSeconds = MAX_TOTAL_DURATION + 8],
          [Request(1, Null, TRUE, TRUE) EXCEPT !.totalDurationSeconds = MAX_TOTAL_DURATION]}

\* What earlier runs of the process left in BudgetManager.currentCost: nothing,
\* or all but the price of one 8 s veo clip and one 1000-token script, or all
\* but the estimate of a run of two 8 s veo scenes.
InitialCosts ==
    {0,
     MAX_BUDGET - (8 * getModelCost(Veo) + OpenAICost(1000)),
     MAX_BUDGET - calculateEstimatedCost(16, 8, Veo).total}

FreshLimiters == [id \in LimiterIds |-> [recent |-> 0, old |-> 0]]

\* What earlier runs left in the rate limiters: nothing, or one script
\* request short of the per-minute limit of the text service, or as many
\* veo requests in the last minute as the per-minute limit of the video
\* service allows.
InitialLimiters ==
    {FreshLimiters,
     [FreshLimiters EXCEPT ![ScriptLimiter].recent =
                               RATE_LIMITS("openai").requestsPerMinute - 1],
     [FreshLimiters EXCEPT ![<<"replicate", Veo>>].recent =
                               RATE_LIMITS("replicate").requestsPerMinute]}

\* the veo requests of the last minute were calls whose clips were paid for
PaidFor(cost, rl) ==
    cost >= rl[<<"replicate", Veo>>].recent * MIN_DURATION * getModelCost(Veo)

\* the backends the breaker is exercised with
BreakerModels == {Veo, Luma}

\* the job ids the registry is exercised with
JobIds == {"job1", "job2"}

\* no backend call looked at
NoSnap == [st |-> "none", requested |-> 0, actual |-> 0, sent |-> 0, returned |-> 0,
           tracked |-> 0, builder |-> 0]

\* no operation yet; created counts the createJob calls, sweptAt is the
\* time of the latest sweep
NoOp == [op |-> "none", id |-> "none", ret |-> FALSE, created |-> 0, sweptAt |-> 0]

\* the registry of a process that has not called getJobsManager, and no
\* backend call looked at
JobsRest ==
    /\ jobs = [id \in JobIds |-> NoJob]
    /\ jobLog = NoOp
    /\ snap = NoSnap

\* the breaker and the limiter at rest, as the pipeline specification
\* leaves them
ClockRest ==
    /\ JobsRest
    /\ clock = 0
    /\ cbFailures = [m \in BreakerModels |-> NoFailures]
    /\ cbLog = [m \in BreakerModels |->
                   [streak |-> 0, live |-> 0, lastFailureAt |-> 0, cleared |-> 0]]
    /\ requests = <<>>
    /\ rlLog = <<>>

---------------------------------------------------------------------------
(* Specification *)

Init ==
    /\ req \in Requests
    /\ pc = "start"
    /\ rejectReason = "none"
    /\ totalScenes = 0
    /\ calculatedSceneDuration = 0
    /\ task = <<>>
    /\ scenes = <<>>
    /\ failedScenes = <<>>
    /\ currentCost \in InitialCosts
    /\ failures = [m \in KnownModels |-> NoRecord]
    /\ rateLimiters \in InitialLimiters
    /\ PaidFor(currentCost, rateLimiters)
    /\ aborted = FALSE
    /\ result = NoResult
    /\ calls = {}
    /\ notStartedAtTrip = {}
    /\ lastTrack = [n |-> 0, amount |-> 0, before |-> 0, raised |-> FALSE, returned |-> 0]
    /\ recordCalls = <<>>
    /\ storySoFar = <<>>
    /\ previousSceneEnd = 0
    /\ scriptRequests = <<>>
    /\ waits = <<>>
    /\ faults = 0
    /\ ClockRest

\* the environment gives the usual answer, or one of the others while the
\* run has had fewer than MaxFaults of them
Answer(outcome, usual) ==
    IF outcome = usual THEN faults' = faults
    ELSE faults < MaxFaults /\ faults' = faults + 1

\* createMovie is called: lines 1746-1827, up to the await of getCharacters
CreateMovie ==
    /\ pc = "start"
    /\ IF ~ValidInput(req)
       THEN /\ pc' = "rejected"
            /\ rejectReason' = "validation"
            /\ UNCHANGED <<totalScenes, calculatedSceneDuration, task>>
       ELSE IF ~BudgetAccepts(req, currentCost)
       THEN /\ pc' = "rejected"
            /\ rejectReason' = "budget"
            /\ UNCHANGED <<totalScenes, calculatedSceneDuration, task>>
       ELSE /\ pc' = "chars"
            /\ rejectReason' = "none"
            /\ calculatedSceneDuration' = CalculatedSceneDuration(req)
            /\ totalScenes' = TotalScenes(req)
            /\ task' = [i \in 1..TotalScenes(req) |-> IdleTask]
    /\ UNCHANGED clockVars
    /\ UNCHANGED <<req, scenes, failedScenes, currentCost, failures, rateLimiters,
                   aborted, result, calls, notStartedAtTrip, lastTrack, recordCalls,
                   storySoFar, previousSceneEnd, scriptRequests, waits, faults>>

\* every scene function called at once, whatever the scene count
RECURSIVE StartAllFrom(_, _)
StartAllFrom(w, i) ==
    IF i > totalScenes THEN w ELSE StartAllFrom(StartScene(w, i), i + 1)

\* the scheduling replaced by Promise.all(sceneFns.map((fn) => fn()))
CharactersLoadedAllAtOnce ==
    /\ pc = "chars"
    /\ SetWorld(StartAllFrom([World EXCEPT !.pc = "scenes"], 1))
    /\ UNCHANGED clockVars
    /\ UNCHANGED <<req, totalScenes, calculatedSceneDuration, aborted, notStartedAtTrip,
                   faults>>

\* getCharacters returned (the rows, or its placeholders): the scene
\* functions are built and the scheduling starts
CharactersLoaded ==
    /\ pc = "chars"
    /\ SetWorld(IF Mode = "seq" THEN SeqIterate(World, 1) ELSE ParStart(World))
    /\ UNCHANGED clockVars
    /\ UNCHANGED <<req, totalScenes, calculatedSceneDuration, aborted, notStartedAtTrip,
                   faults>>

\* the text backend answers scene i
ScriptDone(i) ==
    /\ pc = "scenes"
    /\ task[i].st = "script"
    /\ \E outcome \in {"usage", "noUsage", "error", "rateLimitError"} :
       \E tokens \in (IF outcome = "usage" THEN TokenChoices ELSE {0}) :
           /\ Answer(outcome, "usage")
           /\ SetWorld(AfterTask(ScriptResolved(World, i, outcome, tokens), i))
    /\ UNCHANGED clockVars
    /\ UNCHANGED <<req, totalScenes, calculatedSceneDuration, aborted, notStartedAtTrip>>

\* the video backend answers scene i (a timeout, an invalid URL and a
\* remote error other than 429 are all "error")
VideoDone(i) ==
    /\ pc = "scenes"
    /\ task[i].st = "video"
    /\ \E outcome \in {"url", "storedUrl", "429", "error"} :
       \E msg \in (IF outcome = "429" THEN Messages429 ELSE {"none"}) :
           /\ Answer(outcome, "url")
           /\ SetWorld(AfterTask(VideoResolved(World, i, outcome, msg), i))
    /\ UNCHANGED clockVars
    /\ UNCHANGED <<req, totalScenes, calculatedSceneDuration, aborted, notStartedAtTrip>>

\* the rate-limit back-off of scene i is over
RetryWaitDone(i) ==
    /\ pc = "scenes"
    /\ task[i].st = "retryWait"
    /\ SetWorld(AfterTask(RetryWaitOver(World, i), i))
    /\ UNCHANGED clockVars
    /\ UNCHANGED <<req, totalScenes, calculatedSceneDuration, aborted, notStartedAtTrip,
                   faults>>

\* the download and upload of scene i's clip end
SaveDone(i) ==
    /\ pc = "scenes"
    /\ task[i].st = "save"
    /\ \E outcome \in {"saved", "timeout", "error"} :
           /\ Answer(outcome, "saved")
           /\ SetWorld(AfterTask(SaveResolved(World, i, outcome), i))
    /\ UNCHANGED clockVars
    /\ UNCHANGED <<req, totalScenes, calculatedSceneDuration, aborted, notStartedAtTrip>>

\* wait(FREE_ACCOUNT_DELAY) is over: the next iteration of the loop
DelayDone ==
    /\ pc = "delay"
    /\ SetWorld(SeqIterate(World, NextScene))
    /\ UNCHANGED clockVars
    /\ UNCHANGED <<req, totalScenes, calculatedSceneDuration, aborted, notStartedAtTrip,
                   faults>>

\* saveMovieRecord returned the row, or null
RecordDone ==
    /\ pc = "record"
    /\ \E dbRecord \in BOOLEAN :
           /\ Answer(dbRecord, TRUE)
           /\ SetWorld([World EXCEPT !.pc = "resolved",
                                     !.result = RunResult(World, result.scenes, dbRecord)])
    /\ UNCHANGED clockVars
    /\ UNCHANGED <<req, totalScenes, calculatedSceneDuration, aborted, notStartedAtTrip>>

\* abortJob: the token trips while createMovie is suspended
Abort ==
    /\ req.hasSignal
    /\ ~aborted
    /\ pc \in {"chars", "scenes", "delay", "record"}
    /\ aborted' = TRUE
    /\ notStartedAtTrip' = {i \in 1..totalScenes : task[i].st = "idle"}
    /\ UNCHANGED clockVars
    /\ UNCHANGED <<req, pc, rejectReason, totalScenes, calculatedSceneDuration, task,
                   scenes, failedScenes, currentCost, failures, rateLimiters, result,
                   calls, lastTrack, recordCalls, storySoFar, previousSceneEnd,
                   scriptRequests, waits, faults>>

\* more than 60 s pass: every breaker record is older than resetTimeout and
\* every recorded request is older than a minute
ElapseMinute ==
    /\ pc \in {"chars", "scenes", "delay", "record"}
    /\ failures' = [m \in KnownModels |->
                       IF failures[m].count > 0
                       THEN [failures[m] EXCEPT !.expired = TRUE] ELSE failures[m]]
    /\ rateLimiters' = [id \in LimiterIds |->
                           [recent |-> 0,
                            old |-> rateLimiters[id].old + rateLimiters[id].recent]]
    /\ <<failures', rateLimiters'>> # <<failures, rateLimiters>>
    /\ faults < MaxFaults
    /\ faults' = faults + 1
    /\ UNCHANGED clockVars
    /\ UNCHANGED <<req, pc, rejectReason, totalScenes, calculatedSceneDuration, task,
                   scenes, failedScenes, currentCost, aborted, result, calls,
                   notStartedAtTrip, lastTrack, recordCalls, storySoFar,
                   previousSceneEnd, scriptRequests, waits>>

Next ==
    \/ CreateMovie
    \/ CharactersLoaded
    \/ \E i \in 1..totalScenes : ScriptDone(i)
    \/ \E i \in 1..totalScenes : VideoDone(i)
    \/ \E i \in 1..totalScenes : RetryWaitDone(i)
    \/ \E i \in 1..totalScenes : SaveDone(i)
    \/ DelayDone
    \/ RecordDone
    \/ Abort
    \/ ElapseMinute

Spec == Init /\ [][Next]_vars

---------------------------------------------------------------------------
(* Planning alone: createMovie's validation and scene count over a wider   *)
(* range of requests                                                       *)

MaxSceneDuration == 12

PlanTotals == {0, 6, 12, 20, 30, 45}

PlanChains == {Null, <<>>, <<Veo>>, <<Luma>>, <<Zeroscope, Veo>>, <<Unknown>>}

PlanRequests ==
    {[premiseLen |-> 40, numCharacters |-> 1, totalDurationSeconds |-> t,
      sceneDuration |-> d, modelChain |-> c, enableParallel |-> TRUE,
      hasSignal |-> FALSE] :
        t \in PlanTotals, d \in 1..MaxSceneDuration, c \in PlanChains}

InitPlan ==
    /\ req \in PlanRequests
    /\ pc = "start"
    /\ rejectReason = "none"
    /\ totalScenes = 0
    /\ calculatedSceneDuration = 0
    /\ task = <<>>
    /\ scenes = <<>>
    /\ failedScenes = <<>>
    /\ currentCost = 0
    /\ failures = [m \in KnownModels |-> NoRecord]
    /\ rateLimiters = FreshLimiters
    /\ aborted = FALSE
    /\ result = NoResult
    /\ calls = {}
    /\ notStartedAtTrip = {}
    /\ lastTrack = [n |-> 0, amount |-> 0, before |-> 0, raised |-> FALSE, returned |-> 0]
    /\ recordCalls = <<>>
    /\ storySoFar = <<>>
    /\ previousSceneEnd = 0
    /\ scriptRequests = <<>>
    /\ waits = <<>>
    /\ faults = 0
    /\ ClockRest

NextPlan == CreateMovie

SpecPlan == InitPlan /\ [][NextPlan]_vars

---------------------------------------------------------------------------
(* The video stage at length: runs of one scene, or of two scenes side by  *)
(* side, in which the video service may answer any call with a 429, so    *)
(* that the retries of a backend go as deep as the code lets them          *)

StageRequests ==
    {Request(1, Null, TRUE, TRUE),
     Request(1, <<Zeroscope, Veo>>, TRUE, TRUE),
     Request(2, <<Veo>>, TRUE, TRUE)}

InitStage ==
    /\ req \in StageRequests
    /\ pc = "start"
    /\ rejectReason = "none"
    /\ totalScenes = 0
    /\ calculatedSceneDuration = 0
    /\ task = <<>>
    /\ scenes = <<>>
    /\ failedScenes = <<>>
    /\ currentCost \in {0, MAX_BUDGET - (8 * getModelCost(Veo) + OpenAICost(1000))}
    /\ failures = [m \in KnownModels |-> NoRecord]
    /\ rateLimiters = FreshLimiters
    /\ aborted = FALSE
    /\ result = NoResult
    /\ calls = {}
    /\ notStartedAtTrip = {}
    /\ lastTrack = [n |-> 0, amount |-> 0, before |-> 0, raised |-> FALSE, returned |-> 0]
    /\ recordCalls = <<>>
    /\ storySoFar = <<>>
    /\ previousSceneEnd = 0
    /\ scriptRequests = <<>>
    /\ waits = <<>>
    /\ faults = 0
    /\ ClockRest

\* the video backend answers scene i; a 429 is one of its usual answers
StageVideoDone(i) ==
    /\ pc = "scenes"
    /\ task[i].st = "video"
    /\ \E outcome \in {"url", "429", "error"} :
       \E msg \in (IF outcome = "429" THEN Messages429 ELSE {"none"}) :
           /\ Answer(outcome, IF outcome = "429" THEN "429" ELSE "url")
           /\ SetWorld(AfterTask(VideoResolved(World, i, outcome, msg), i))
    /\ UNCHANGED clockVars
    /\ UNCHANGED <<req, totalScenes, calculatedSceneDuration, aborted, notStartedAtTrip>>

NextStage ==
    \/ CreateMovie
    \/ CharactersLoaded
    \/ \E i \in 1..totalScenes : ScriptDone(i)
    \/ \E i \in 1..totalScenes : StageVideoDone(i)
    \/ \E i \in 1..totalScenes : RetryWaitDone(i)
    \/ \E i \in 1..totalScenes : SaveDone(i)
    \/ RecordDone
    \/ Abort
    \/ ElapseMinute

SpecStage == InitStage /\ [][NextStage]_vars

---------------------------------------------------------------------------
(* A run that uses up the budget: four scenes in sequence with a cheap     *)
(* first backend and a dear second one, in a process whose earlier runs    *)
(* left room for two clips of the dear backend and their scripts           *)

InitSpent ==
    /\ req = Request(4, <<Zeroscope, Veo>>, FALSE, TRUE)
    /\ pc = "start"
    /\ rejectReason = "none"
    /\ totalScenes = 0
    /\ calculatedSceneDuration = 0
    /\ task = <<>>
    /\ scenes = <<>>
    /\ failedScenes = <<>>
    /\ currentCost \in {0, MAX_BUDGET - 2 * (8 * getModelCost(Veo) + OpenAICost(1000))}
    /\ failures = [m \in KnownModels |-> NoRecord]
    /\ rateLimiters = FreshLimiters
    /\ aborted = FALSE
    /\ result = NoResult
    /\ calls = {}
    /\ notStartedAtTrip = {}
    /\ lastTrack = [n |-> 0, amount |-> 0, before |-> 0, raised |-> FALSE, returned |-> 0]
    /\ recordCalls = <<>>
    /\ storySoFar = <<>>
    /\ previousSceneEnd = 0
    /\ scriptRequests = <<>>
    /\ waits = <<>>
    /\ faults = 0
    /\ ClockRest

SpecSpent == InitSpent /\ [][Next]_vars

---------------------------------------------------------------------------
(* Runs whose caller passes callbacks that may throw                       *)

\* saveVideo returned and the try block went on to scenes.push(sceneData);
\* then onSceneComplete(sceneData), or the onProgress under
\* progress.notify(i, "completed"), threw: the catch block of lines
\* 1919-1932 runs with the success record already pushed
SceneSuccessCallbackThrows(w, i) == SceneFail(SceneSuccess(w, i), i, "CallbackError")

\* the download and upload of scene i's clip end well and a callback throws
SaveDoneCallbackThrows(i) ==
    /\ pc = "scenes"
    /\ task[i].st = "save"
    /\ SetWorld(AfterTask(SceneSuccessCallbackThrows(World, i), i))
    /\ UNCHANGED clockVars
    /\ UNCHANGED <<req, totalScenes, calculatedSceneDuration, aborted, notStartedAtTrip,
                   faults>>

CallbackRequests ==
    {Request(1, Null, FALSE, TRUE),
     Request(2, <<Veo>>, FALSE, TRUE),
     Request(2, <<Veo>>, TRUE, TRUE)}

InitCallbacks ==
    /\ req \in CallbackRequests
    /\ pc = "start"
    /\ rejectReason = "none"
    /\ totalScenes = 0
    /\ calculatedSceneDuration = 0
    /\ task = <<>>
    /\ scenes = <<>>
    /\ failedScenes = <<>>
    /\ currentCost = 0
    /\ failures = [m \in KnownModels |-> NoRecord]
    /\ rateLimiters = FreshLimiters
    /\ aborted = FALSE
    /\ result = NoResult
    /\ calls = {}
    /\ notStartedAtTrip = {}
    /\ lastTrack = [n |-> 0, amount |-> 0, before |-> 0, raised |-> FALSE, returned |-> 0]
    /\ recordCalls = <<>>
    /\ storySoFar = <<>>
    /\ previousSceneEnd = 0
    /\ scriptRequests = <<>>
    /\ waits = <<>>
    /\ faults = 0
    /\ ClockRest

NextCallbacks ==
    \/ CreateMovie
    \/ CharactersLoaded
    \/ \E i \in 1..totalScenes : ScriptDone(i)
    \/ \E i \in 1..totalScenes : VideoDone(i)
    \/ \E i \in 1..totalScenes : RetryWaitDone(i)
    \/ \E i \in 1..totalScenes : SaveDone(i)
    \/ \E i \in 1..totalScenes : SaveDoneCallbackThrows(i)
    \/ DelayDone
    \/ RecordDone
    \/ Abort
    \/ ElapseMinute

SpecCallbacks == InitCallbacks /\ [][NextCallbacks]_vars

---------------------------------------------------------------------------
(* The circuit breaker on its own: any order of canExecute, recordSuccess  *)
(* and recordFailure calls for two backends, with time passing             *)

MaxClock == 122

MaxFailures == 4

\* the pipeline before createMovie is called
PipelineIdle ==
    /\ req = Request(1, Null, TRUE, FALSE)
    /\ pc = "start"
    /\ rejectReason = "none"
    /\ totalScenes = 0
    /\ calculatedSceneDuration = 0
    /\ task = <<>>
    /\ scenes = <<>>
    /\ failedScenes = <<>>
    /\ currentCost = 0
    /\ failures = [m \in KnownModels |-> NoRecord]
    /\ rateLimiters = FreshLimiters
    /\ aborted = FALSE
    /\ result = NoResult
    /\ calls = {}
    /\ notStartedAtTrip = {}
    /\ lastTrack = [n |-> 0, amount |-> 0, before |-> 0, raised |-> FALSE, returned |-> 0]
    /\ recordCalls = <<>>
    /\ storySoFar = <<>>
    /\ previousSceneEnd = 0
    /\ scriptRequests = <<>>
    /\ waits = <<>>
    /\ faults = 0

InitBreaker == PipelineIdle /\ ClockRest

\* canExecute(m) is called
BreakerCanExecute(m) ==
    LET r == canExecuteAt(cbFailures, m, clock)
    IN  /\ cbFailures' = r.failures
        /\ cbLog' = IF r.failures # cbFailures
                     THEN [cbLog EXCEPT ![m].live = 0] ELSE cbLog
        /\ UNCHANGED <<clock, requests, rlLog>>
        /\ UNCHANGED pipelineVars
        /\ UNCHANGED snap
        /\ UNCHANGED jobVars

\* recordSuccess(m) is called
BreakerRecordSuccess(m) ==
    /\ cbFailures' = recordSuccessAt(cbFailures, m)
    /\ cbLog' = [cbLog EXCEPT ![m] = [streak |-> 0, live |-> 0,
                                       lastFailureAt |-> @.lastFailureAt,
                                       cleared |-> cbFailures[m].count]]
    /\ UNCHANGED <<clock, requests, rlLog>>
    /\ UNCHANGED pipelineVars
    /\ UNCHANGED snap
    /\ UNCHANGED jobVars

\* recordFailure(m) is called
BreakerRecordFailure(m) ==
    /\ cbLog[m].streak < MaxFailures
    /\ cbFailures' = recordFailureAt(cbFailures, m, clock)
    /\ cbLog' = [cbLog EXCEPT ![m] = [streak |-> @.streak + 1, live |-> @.live + 1,
                                       lastFailureAt |-> clock, cleared |-> @.cleared]]
    /\ UNCHANGED <<clock, requests, rlLog>>
    /\ UNCHANGED pipelineVars
    /\ UNCHANGED snap
    /\ UNCHANGED jobVars

\* resetTimeout seconds pass, or one more
BreakerTick ==
    /\ \E dt \in {resetTimeout, resetTimeout + 1} :
           /\ clock + dt <= MaxClock
           /\ clock' = clock + dt
    /\ UNCHANGED <<cbFailures, cbLog, requests, rlLog>>
    /\ UNCHANGED pipelineVars
    /\ UNCHANGED snap
    /\ UNCHANGED jobVars

NextBreaker ==
    \/ \E m \in BreakerModels : BreakerCanExecute(m)
    \/ \E m \in BreakerModels : BreakerRecordSuccess(m)
    \/ \E m \in BreakerModels : BreakerRecordFailure(m)
    \/ BreakerTick

SpecBreaker == InitBreaker /\ [][NextBreaker]_vars

---------------------------------------------------------------------------
(* The rate limiter on its own: checkRateLimit calls for a video key and   *)
(* the script key, with time passing                                       *)

MaxElapsed == 120

MaxChecks == 3

\* the clock when the calls under study begin: 59 minutes after the first
\* request the process ever made
ClockStart == 59 * 60

LimiterKeys == {<<"replicate", Veo>>, ScriptLimiter}

\* What earlier calls left in the requests array of a key: nothing; or one
\* request short of the per-minute limit, all made just now; or one request
\* short of the per-hour limit, made at the per-minute limit from the
\* first minute on (when the per-minute limit lets an hour hold that many).
EarlierRequests(key) ==
    LET limits == RATE_LIMITS(key[1])
        perMinute == limits.requestsPerMinute
        perHour == limits.requestsPerHour
    IN  {<<>>, [n \in 1..(perMinute - 1) |-> ClockStart]}
        \cup (IF perHour - 1 <= perMinute * 59
              THEN {[n \in 1..(perHour - 1) |-> ((n - 1) \div perMinute) * 60]}
              ELSE {})

InitLimiter ==
    /\ PipelineIdle
    /\ JobsRest
    /\ clock = ClockStart
    /\ cbFailures = [m \in BreakerModels |-> NoFailures]
    /\ cbLog = [m \in BreakerModels |->
                   [streak |-> 0, live |-> 0, lastFailureAt |-> 0, cleared |-> 0]]
    /\ requests \in [LimiterKeys -> UNION {EarlierRequests(key) : key \in LimiterKeys}]
    /\ \A key \in LimiterKeys : requests[key] \in EarlierRequests(key)
    /\ rlLog = [key \in LimiterKeys |-> [allowed |-> requests[key], checks |-> 0]]

\* checkRateLimit(service, identifier) is called
LimiterCheck(key) ==
    LET r == checkRateLimitAt(requests, key[1], key[2], clock)
    IN  /\ rlLog[key].checks < MaxChecks
        /\ requests' = r.requests
        /\ rlLog' = [rlLog EXCEPT ![key] =
                         [allowed |-> IF r.allowed THEN Append(@.allowed, clock)
                                      ELSE @.allowed,
                          checks |-> @.checks + 1]]
        /\ UNCHANGED <<clock, cbFailures, cbLog>>
        /\ UNCHANGED pipelineVars
        /\ UNCHANGED snap
        /\ UNCHANGED jobVars

\* 59 seconds pass, or 60
LimiterTick ==
    /\ \E dt \in {59, 60} :
           /\ clock + dt <= ClockStart + MaxElapsed
           /\ clock' = clock + dt
    /\ UNCHANGED <<cbFailures, cbLog, requests, rlLog>>
    /\ UNCHANGED pipelineVars
    /\ UNCHANGED snap
    /\ UNCHANGED jobVars

NextLimiter ==
    \/ \E key \in LimiterKeys : LimiterCheck(key)
    \/ LimiterTick

SpecLimiter == InitLimiter /\ [][NextLimiter]_vars

---------------------------------------------------------------------------
(* The job registry on its own: createJob, abortJob, completeJob and the   *)
(* two queries for two job ids, the sweep timer and time passing           *)

\* how long the registry is followed, in seconds
MaxJobElapsed == 4200

\* how many createJob calls are made
MaxCreates == 2

\* Date.now() at the first getJobsManager call, which sets the sweep timer
JobsEpoch == 5 * sweepEvery

\* the sweep timer has fired and its callback has not run yet
SweepDue ==
    /\ clock > JobsEpoch
    /\ (clock - JobsEpoch) % sweepEvery = 0
    /\ jobLog.sweptAt # clock

\* the log after an abortJob call (op "abortJob", its jobId and result) or
\* after another operation that writes to the registry (op "other")
Logged(op, id, ret) == [jobLog EXCEPT !.op = op, !.id = id, !.ret = ret]

InitJobs ==
    /\ PipelineIdle
    /\ clock = JobsEpoch
    /\ cbFailures = [m \in BreakerModels |-> NoFailures]
    /\ cbLog = [m \in BreakerModels |->
                   [streak |-> 0, live |-> 0, lastFailureAt |-> 0, cleared |-> 0]]
    /\ requests = <<>>
    /\ rlLog = <<>>
    /\ JobsRest

JobsCreate(id) ==
    /\ jobLog.created < MaxCreates
    /\ jobs' = createJob(jobs, id, clock, jobLog.created + 1)
    /\ jobLog' = [Logged("other", "none", FALSE) EXCEPT !.created = @ + 1]
    /\ UNCHANGED <<clock, cbFailures, cbLog, requests, rlLog>>
    /\ UNCHANGED pipelineVars
    /\ UNCHANGED snap

\* getAbortSignal(jobId) reads the entry
JobsGetSignal(id) ==
    /\ getAbortSignal(jobs, id) \in BOOLEAN
    /\ UNCHANGED <<jobs, jobLog, clock, cbFailures, cbLog, requests, rlLog>>
    /\ UNCHANGED pipelineVars
    /\ UNCHANGED snap

JobsAbort(id) ==
    LET r == abortJob(jobs, id, clock)
    IN  /\ jobs' = r.jobs
        /\ jobLog' = Logged("abortJob", id, r.ret)
        /\ UNCHANGED <<clock, cbFailures, cbLog, requests, rlLog>>
        /\ UNCHANGED pipelineVars
        /\ UNCHANGED snap

JobsComplete(id) ==
    /\ jobs' = completeJob(jobs, id, clock)
    /\ jobLog' = Logged("other", "none", FALSE)
    /\ UNCHANGED <<clock, cbFailures, cbLog, requests, rlLog>>
    /\ UNCHANGED pipelineVars
    /\ UNCHANGED snap

\* getJobStatus(jobId) reads the entry
JobsGetStatus(id) ==
    /\ getJobStatus(jobs, id) \in BOOLEAN
    /\ UNCHANGED <<jobs, jobLog, clock, cbFailures, cbLog, requests, rlLog>>
    /\ UNCHANGED pipelineVars
    /\ UNCHANGED snap

\* the timer's callback: jobsManagerInstance.cleanup()
JobsCleanup ==
    /\ SweepDue
    /\ jobs' = cleanup(jobs, clock, olderThanMs)
    /\ jobLog' = [Logged("other", "none", FALSE) EXCEPT !.sweptAt = clock]
    /\ UNCHANGED <<clock, cbFailures, cbLog, requests, rlLog>>
    /\ UNCHANGED pipelineVars
    /\ UNCHANGED snap

\* a sweep period passes, once a sweep that is due has run
JobsTick ==
    /\ ~SweepDue
    /\ clock + sweepEvery <= JobsEpoch + MaxJobElapsed
    /\ clock' = clock + sweepEvery
    /\ UNCHANGED <<cbFailures, cbLog, requests, rlLog, jobVars>>
    /\ UNCHANGED pipelineVars
    /\ UNCHANGED snap

NextJobs ==
    \/ \E id \in JobIds : JobsCreate(id)
    \/ \E id \in JobIds : JobsGetSignal(id)
    \/ \E id \in JobIds : JobsAbort(id)
    \/ \E id \in JobIds : JobsComplete(id)
    \/ \E id \in JobIds : JobsGetStatus(id)
    \/ JobsCleanup
    \/ JobsTick

SpecJobs == InitJobs /\ [][NextJobs]_vars

---------------------------------------------------------------------------
(* One veo call on its own: any duration up to MaxTenths tenths of a       *)
(* second is asked for, passed through createMovie's snap or handed to the *)
(* video stage as it is                                                    *)

MaxTenths == 120

InitSnap ==
    /\ PipelineIdle
    /\ clock = 0
    /\ cbFailures = [m \in BreakerModels |-> NoFailures]
    /\ cbLog = [m \in BreakerModels |->
                   [streak |-> 0, live |-> 0, lastFailureAt |-> 0, cleared |-> 0]]
    /\ requests = <<>>
    /\ rlLog = <<>>
    /\ jobs = [id \in JobIds |-> NoJob]
    /\ jobLog = NoOp
    /\ \E d \in 0..MaxTenths : snap = [NoSnap EXCEPT !.st = "asked", !.requested = d]

\* createMovie snaps the scene duration for a chain that starts with veo
SnapPlan ==
    /\ snap.st = "asked"
    /\ snap' = [snap EXCEPT !.st = "planned",
                            !.actual = PlannedTenths(Veo, snap.requested)]
    /\ UNCHANGED <<clock, cbFailures, cbLog, requests, rlLog, jobVars>>
    /\ UNCHANGED pipelineVars

\* generateSceneVideo calls veo and its clip is tracked and returned
SnapCall ==
    /\ snap.st \in {"asked", "planned"}
    /\ LET duration == IF snap.st = "planned" THEN snap.actual ELSE snap.requested
           actualDuration == ActualTenths(Veo, duration)
       IN  snap' = [snap EXCEPT !.st = "returned",
                                !.actual = actualDuration,
                                !.sent = VeoValidDuration(actualDuration),
                                !.tracked = actualDuration,
                                !.returned = actualDuration,
                                !.builder = VeoValidDuration(snap.requested)]
    /\ UNCHANGED <<clock, cbFailures, cbLog, requests, rlLog, jobVars>>
    /\ UNCHANGED pipelineVars

NextSnap == SnapPlan \/ SnapCall

SpecSnap == InitSnap /\ [][NextSnap]_vars

---------------------------------------------------------------------------
(* Properties *)

Accepted == pc \notin {"start", "rejected"}

Ended == pc \in {"resolved", "rejected"}

Records(i) == {n \in 1..Len(scenes) : scenes[n].scene = i}

FailureEntries(i) == {n \in 1..Len(failedScenes) : failedScenes[n] = i}

\* C1: the cumulative tracked cost is at most the ceiling in every
\* reachable state.
C1_CostWithinCeiling == currentCost <= MAX_BUDGET

\* C2: a track call that leaves the cumulative cost above the ceiling
\* raises, one that leaves it at or below the ceiling returns the new
\* cumulative cost, and once the cost is above the ceiling every later
\* track call raises too.
C2_TrackRaisesIffAbove ==
    lastTrack.n > 0 =>
        /\ lastTrack.raised <=> currentCost > MAX_BUDGET
        /\ ~lastTrack.raised =>
               /\ lastTrack.returned = currentCost
               /\ currentCost = lastTrack.before + lastTrack.amount
        /\ lastTrack.before > MAX_BUDGET => lastTrack.raised

\* a track call made when the cost was already above the ceiling
C2_Witness ==
    /\ lastTrack.n > 0
    /\ lastTrack.before > MAX_BUDGET
    /\ lastTrack.raised

\* C3: in a run that is never cancelled, a failure inside a scene leaves
\* one scene record with success = false and one entry in the failure
\* list, every scene is attempted, and createMovie does not reject.
C3_SceneFailureSwallowed ==
    ~aborted =>
        /\ pc = "rejected" => rejectReason \in {"validation", "budget"}
        /\ \A i \in 1..totalScenes :
               (Settled(task[i]) /\ task[i].err # "none") =>
                   /\ Cardinality(Records(i)) = 1
                   /\ \A n \in Records(i) : ~scenes[n].success /\ ~scenes[n].aborted
                   /\ Cardinality(FailureEntries(i)) = 1
        /\ pc = "resolved" => \A i \in 1..totalScenes : Settled(task[i])

\* C4: createMovie rejects only for a validation failure or a rejected
\* budget estimate.
C4_RejectsOnlyPreflight ==
    pc = "rejected" => rejectReason \in {"validation", "budget"}

\* the token tripped after a scene task had started
TrippedAfterBegin ==
    aborted /\ notStartedAtTrip # 1..totalScenes

\* C5: a run whose token tripped after scene execution began calls the
\* record store exactly once before it ends, with the scenes that
\* succeeded.
C5_AbortedRunIsRecorded ==
    (Ended /\ TrippedAfterBegin) =>
        /\ Len(recordCalls) = 1
        /\ recordCalls[1].scenes = Successful(scenes)

\* C6: a scene whose task had not started when the token tripped issues no
\* script call, no video call and no download.
C6_NoCallAfterTrip ==
    \A j \in notStartedAtTrip :
        \A kind \in {"script", "video", "download"} : <<j, kind>> \notin calls

\* a run that ended after the token tripped between two scenes: the
\* earlier scene issued its calls, the later ones had not started
C6_Witness ==
    /\ pc = "resolved"
    /\ notStartedAtTrip # {}
    /\ \E i \in 1..totalScenes : <<i, "download">> \in calls

\* C7: after the token tripped before scene i started, the returned result
\* holds a record marked aborted for every scene from i on, none of them
\* counted as failed, and keeps every scene that had succeeded.  (The
\* records are looked for in the whole scenes array, of which the result
\* carries the successful part.)
C7_AbortedScenesInResult ==
    (pc = "resolved" /\ aborted) =>
        /\ \A j \in notStartedAtTrip :
               /\ \E n \in Records(j) : scenes[n].aborted
               /\ FailureEntries(j) = {}
        /\ \A n \in 1..Len(scenes) :
               scenes[n].success =>
                   \E r \in 1..Len(result.scenes) : result.scenes[r] = scenes[n]

\* number of records marked aborted in the scenes array
AbortedCount == Cardinality({n \in 1..Len(scenes) : scenes[n].aborted})

\* C8: in every returned result, successful + failed + aborted scenes add
\* up to totalScenes.
C8_EverySceneAccounted ==
    pc = "resolved" =>
        result.successfulScenes + result.failedScenes + AbortedCount = result.totalScenes

Snap468(d) == IF d <= 5 THEN 4 ELSE IF d <= 7 THEN 6 ELSE 8

\* the scene duration a run uses, read off the request
EffectiveSceneDuration(r) ==
    IF SelectedModelName(r) = Veo
    THEN (IF r.totalDurationSeconds = 30 THEN 6 ELSE Snap468(r.sceneDuration))
    ELSE (IF r.totalDurationSeconds = 30 THEN 10 ELSE r.sceneDuration)

C10_ResultInSceneOrder ==
    pc = "resolved" =>
        \A a, b \in 1..Len(result.scenes) :
            a < b => result.scenes[a].scene < result.scenes[b].scene


\* C11: the script request of scene n + 1 is issued only after scene n has
\* finalized, and when scene n succeeded it carries the story so far and
\* the continuity hook as scene n wrote them.
C11_ContinuityInSceneOrder ==
    \A r \in 1..Len(scriptRequests) :
        LET q == scriptRequests[r]
            n == q.scene - 1
        IN  n >= 1 =>
                /\ n \in q.finalized
                /\ (\E x \in Records(n) : scenes[x].success) =>
                       /\ q.previousSceneEnd = n
                       /\ Len(q.storySoFar) > 0
                       /\ q.storySoFar[Len(q.storySoFar)] = n


\* C12: at every moment the number of scene tasks started and not yet
\* finalized is at most MAX_PARALLEL_SCENES.
C12_InFlightCapped ==
    Cardinality(running(World)) <= MAX_PARALLEL_SCENES

\* two scene tasks in flight at once
C12_Witness ==
    /\ pc = "scenes"
    /\ Cardinality(running(World)) = MAX_PARALLEL_SCENES


\* the scene tasks that have been started
Started == {j \in 1..totalScenes : task[j].st # "idle"}

\* C13: with more than 2 scenes, or with parallel execution disabled, at
\* most one scene task is in flight, scene i + 1 starts only after scene i
\* has finalized, a 12 s wait lies between the end of a scene and the start
\* of the next, and no wait follows the last scene.
C13_SequentialWithDelay ==
    (Accepted /\ pc # "chars" /\ (totalScenes > 2 \/ ~req.enableParallel)) =>
        /\ Cardinality(running(World)) <= 1
        /\ \A i \in 2..totalScenes : i \in Started => Settled(task[i - 1])
        /\ Cardinality(Started) <= Len(waits) + 1
        /\ pc = "delay" => Cardinality(Started) = Len(waits)
        /\ \A k \in 1..Len(waits) : waits[k] = 12
        /\ Len(waits) <= totalScenes - 1

\* a three-scene run that ended after two waits
C13_Witness ==
    /\ pc = "resolved"
    /\ totalScenes = 3
    /\ Len(waits) = 2
    /\ Cardinality(Started) = 3


\* what canExecute(m) would answer now
Executable(m) == canExecuteAt(cbFailures, m, clock).ok

\* C14 as stated: after 3 recordFailure(m) calls in a row with no
\* recordSuccess(m) between them, canExecute(m) is false while no more than
\* resetTimeout has passed since the last failure, and true after that.
C14_OpenAfterThreeFailures ==
    \A m \in BreakerModels :
        cbLog[m].streak >= 3 =>
            (Executable(m) <=> clock - cbLog[m].lastFailureAt > 60)

\* C14 as amended: the same, the 3 failures in a row having also no
\* canExecute(m) call between them that found the record older than
\* resetTimeout (such a call discards the record and the count restarts).
C14_OpenAfterThreeLiveFailures ==
    \A m \in BreakerModels :
        cbLog[m].live >= 3 =>
            (Executable(m) <=> clock - cbLog[m].lastFailureAt > 60)

\* three failures in a row, the last of them exactly resetTimeout ago
C14_Witness ==
    \E m \in BreakerModels :
        /\ cbLog[m].live >= 3
        /\ clock - cbLog[m].lastFailureAt = 60
        /\ ~Executable(m)

\* C15: after recordSuccess(m) canExecute(m) is true, and it is false only
\* after 3 or more recordFailure(m) calls since the last recordSuccess(m),
\* whatever was recorded for the other backends.
C15_SuccessClearsRecord ==
    \A m \in BreakerModels :
        /\ cbLog[m].streak = 0 => Executable(m)
        /\ ~Executable(m) => cbLog[m].streak >= 3

\* a success was recorded for an open backend while another one is open
C15_Witness ==
    \E m \in BreakerModels : \E o \in BreakerModels \ {m} :
        /\ cbLog[m].cleared >= 3
        /\ cbLog[m].streak = 0
        /\ Executable(m)
        /\ ~Executable(o)


\* the allowed requests of a key made less than span seconds ago
AllowedWithin(key, span) ==
    Len(SelectSeq(rlLog[key].allowed, LAMBDA t : clock - t < span))

\* what checkRateLimit would answer for a key now
RateAnswer(key) == checkRateLimitAt(requests, key[1], key[2], clock)

\* C16: for each key a call is allowed iff fewer allowed calls than the
\* per-minute limit lie within the last 60 s and fewer than the per-hour
\* limit within the last 3600 s; a denial carries a reason and a
\* retry-after; the requests kept are the allowed calls only.
C16_SlidingWindows ==
    \A key \in LimiterKeys :
        LET limits == RATE_LIMITS(key[1])
            r == RateAnswer(key)
        IN  /\ r.allowed <=>
                   /\ AllowedWithin(key, 60) < limits.requestsPerMinute
                   /\ AllowedWithin(key, 3600) < limits.requestsPerHour
            /\ ~r.allowed => (r.reason # "none" /\ r.retryAfter > 0)
            /\ SelectSeq(requests[key], LAMBDA t : clock - t < 3600)
                   = SelectSeq(rlLog[key].allowed, LAMBDA t : clock - t < 3600)

\* the per-minute limit was reached by calls that are now exactly 60 s
\* old, and the next call is allowed
C16_Witness ==
    \E key \in LimiterKeys :
        /\ Len(SelectSeq(rlLog[key].allowed, LAMBDA t : clock - t = 60))
               = RATE_LIMITS(key[1]).requestsPerMinute
        /\ rlLog[key].checks > 0
        /\ RateAnswer(key).allowed


\* the requests recorded against the video service in the last minute,
\* over all its keys
ReplicateRecent ==
    rateLimiters[<<"replicate", Veo>>].recent + rateLimiters[<<"replicate", Luma>>].recent
        + rateLimiters[<<"replicate", Svd>>].recent
        + rateLimiters[<<"replicate", Zeroscope>>].recent

\* C17: over all backends, scenes and runs, at most 10 video calls are
\* issued to the video service in any 60 s.
C17_ServiceWideVideoLimit ==
    ReplicateRecent <= 10


\* C18: a call with a premise shorter than 10 characters, no character or
\* a total duration above 3600 s is rejected as invalid with no call issued
\* and the budget, the rate limiters and the breaker left as they were.
C18_InvalidInputFailsFast ==
    [][(pc = "start" /\ (req.premiseLen < 10 \/ req.numCharacters = 0
                            \/ req.totalDurationSeconds > 3600)) =>
           /\ pc' = "rejected"
           /\ rejectReason' = "validation"
           /\ calls' = {}
           /\ recordCalls' = <<>>
           /\ UNCHANGED <<currentCost, rateLimiters, failures, lastTrack>>]_vars

\* a call rejected for its premise
C18_Witness ==
    /\ pc = "rejected"
    /\ rejectReason = "validation"
    /\ req.premiseLen < 10

\* the estimate createMovie computes for its request
RequestEstimate ==
    calculateEstimatedCost(req.totalDurationSeconds, CalculatedSceneDuration(req),
                           SelectedModelName(req)).total

\* C19: a valid call whose estimate exceeds the ceiling, or the ceiling
\* minus the cumulative cost, is rejected before any scene task starts and
\* any call is issued, the cumulative cost unchanged.
C19_EstimateRejectedUpFront ==
    [][(pc = "start" /\ req.premiseLen >= 10 /\ req.numCharacters > 0
           /\ req.totalDurationSeconds <= 3600
           /\ (RequestEstimate > MAX_BUDGET
                  \/ RequestEstimate > MAX_BUDGET - currentCost)) =>
           /\ pc' = "rejected"
           /\ rejectReason' = "budget"
           /\ task' = <<>>
           /\ calls' = {}
           /\ recordCalls' = <<>>
           /\ UNCHANGED <<currentCost, lastTrack>>]_vars

\* a call rejected because the estimate, itself under the ceiling, exceeds
\* what is left of the budget
C19_Witness ==
    /\ pc = "rejected"
    /\ rejectReason = "budget"
    /\ RequestEstimate <= MAX_BUDGET
    /\ RequestEstimate > MAX_BUDGET - currentCost


\* C20: in every scene the video stage calls the backends in chain order,
\* returns the clip of the first backend that yielded a valid URL and calls
\* no backend after it, and fails with the combined error only with
\* exactly one entry for each backend of the chain.
C20_FirstValidClipReturned ==
    \A i \in 1..totalScenes :
        LET t == task[i]
            n == Len(Models(req.modelChain))
        IN  /\ \A x, y \in 1..Len(t.tried) : x < y => t.tried[x] <= t.tried[y]
            /\ t.urlFrom # 0 =>
                   /\ t.clip = t.urlFrom
                   /\ t.tried[Len(t.tried)] = t.urlFrom
            /\ t.err = "AllFailed" =>
                   \A k \in 1..n :
                       Cardinality({x \in 1..Len(t.errors) : t.errors[x] = k}) = 1


\* how many calls scene task t issued to the backend at chain position k
CallsTo(t, k) == Cardinality({x \in 1..Len(t.tried) : t.tried[x] = k})

\* the checks of generateSceneVideo's loop let a call to backend m through
NotSkipped(m) ==
    /\ canExecute(failures, m).ok
    /\ checkRateLimit(rateLimiters, "replicate", m).allowed
    /\ Remaining(currentCost) >=
           VIDEO_MODELS(m).costPerSecond * ActualDuration(m, calculatedSceneDuration)

\* C21 as written: after a 429 with the hint "retry after 3" the stage
\* waits 4 s and retries the same backend exactly once, so that no backend
\* is called more than twice for a scene.
C21_RetriesExactlyOnce ==
    \A i \in 1..totalScenes :
        /\ (task[i].st = "retryWait" /\ task[i].msg = "hint") => task[i].wait = 4
        /\ \A k \in 1..Len(Models(req.modelChain)) : CallsTo(task[i], k) <= 2

\* C21: after a 429 with the hint "retry after 3" the stage waits 4 s; when
\* the wait is over it calls the same backend again, one level deeper,
\* unless the token tripped or the breaker, the limiter or the budget check
\* skips the backend; a retry answered by a 429 is retried in its turn, up
\* to MAX_RETRIES retries in all; a retry that fails otherwise, or the last
\* one, leaves an entry for the backend and any further call goes to a
\* later backend of the chain.
C21_RetriesUpToMax ==
    [][\A i \in 1..totalScenes :
          LET t == task[i]
              u == task'[i]
              k == t.k
              m == Models(req.modelChain)[k]
          IN  /\ (u.st = "retryWait" /\ u.msg = "hint") => u.wait = 4
              /\ (u.st = "retryWait" /\ t.st = "video") =>
                     (t.depth < MAX_RETRIES /\ u.k = k /\ u.tried = t.tried)
              /\ (t.st = "retryWait" /\ u.st # "retryWait") =>
                     IF ~AbortObserved /\ NotSkipped(m)
                     THEN /\ u.st = "video" /\ u.k = k /\ u.depth = t.depth + 1
                          /\ u.tried = Append(t.tried, k)
                     ELSE CallsTo(u, k) = CallsTo(t, k)
              /\ (t.st = "video" /\ t.depth >= 1 /\ u # t
                    /\ u.st # "retryWait" /\ u.clip = 0) =>
                     /\ CallsTo(u, k) = CallsTo(t, k)
                     /\ \E x \in 1..Len(u.errors) : u.errors[x] = k
                     /\ u.st = "video" => u.k > k
              /\ \A j \in 1..Len(Models(req.modelChain)) :
                     CallsTo(u, j) <= 1 + MAX_RETRIES
      ]_vars

\* a scene whose first backend got a 429 with the hint, was retried after
\* 4 s, failed again and gave way to the second backend
C21_Witness ==
    \E i \in 1..totalScenes :
        /\ task[i].tried = <<1, 1, 2>>
        /\ task[i].msg = "hint"
        /\ task[i].wait = 4
        /\ task[i].errors = <<1>>


\* C22: abortJob(jobId) returns true exactly when the entry was running,
\* and then trips its token; otherwise it returns false and leaves the
\* registry as it was; no other operation trips the token of an entry or
\* untrips one.
C22_AbortTripsRunningOnly ==
    [][/\ (jobLog'.op = "abortJob" /\ clock' = clock) =>
            LET id == jobLog'.id
            IN  /\ jobLog'.ret <=> jobs[id].status = "running"
                /\ jobLog'.ret => /\ jobs'[id].tripped
                                  /\ jobs'[id].status = "aborted"
                                  /\ jobs'[id].ctrl = jobs[id].ctrl
                /\ ~jobLog'.ret => jobs' = jobs
                /\ \A other \in JobIds \ {id} : jobs'[other] = jobs[other]
       /\ \A id \in JobIds :
            (jobs'[id].ctrl = jobs[id].ctrl /\ jobs'[id].tripped # jobs[id].tripped) =>
                /\ jobLog'.op = "abortJob" /\ jobLog'.id = id /\ jobLog'.ret
                /\ jobs'[id].tripped
       /\ \A id \in JobIds :
            (jobs'[id].ctrl # jobs[id].ctrl /\ jobs'[id].status # "none") =>
                ~jobs'[id].tripped
      ]_vars

\* abortJob returned false for a completed entry and for an aborted one,
\* after it had returned true for the latter
C22_Witness ==
    /\ jobLog.op = "abortJob"
    /\ ~jobLog.ret
    /\ jobs[jobLog.id].status = "aborted"
    /\ jobs[jobLog.id].tripped
    /\ \E other \in JobIds : jobs[other].status = "completed" /\ ~jobs[other].tripped


\* the time an entry took its terminal status
TerminalTime(job) ==
    IF job.status = "completed" THEN job.completedAt ELSE job.abortedAt

\* C23: a sweep removes exactly the entries that are not running and whose
\* terminal time stamp is more than the retention window (1 h) old, and
\* leaves every other entry as it is; nothing else removes an entry, and a
\* running entry is never removed.
C23_SweepRemovesOldTerminal ==
    [][/\ jobLog'.sweptAt # jobLog.sweptAt =>
            \A id \in JobIds :
                jobs'[id] =
                    IF /\ jobs[id].status \in {"completed", "aborted"}
                       /\ clock - TerminalTime(jobs[id]) > 3600
                    THEN NoJob ELSE jobs[id]
       /\ \A id \in JobIds :
            (jobs[id].status # "none" /\ jobs'[id].status = "none") =>
                /\ jobLog'.sweptAt # jobLog.sweptAt
                /\ jobs[id].status # "running"
      ]_vars

\* a sweep has just removed the entry created second and kept the one
\* created first, which is terminal for exactly an hour
C23_Witness ==
    \E id, other \in JobIds :
        /\ jobLog.sweptAt = clock
        /\ jobLog.created = 2
        /\ jobs[id].status = "none"
        /\ jobs[other].ctrl = 1
        /\ jobs[other].status \in {"completed", "aborted"}
        /\ clock - TerminalTime(jobs[other]) = 3600


\* C24: whenever the text backend's call of a scene failed, the script
\* stage returned the filler script and the scene was not failed by it.
C24_TextFailureGivesFiller ==
    \A i \in 1..totalScenes :
        task[i].textError =>
            /\ task[i].script = "filler"
            /\ task[i].err # "RateLimit"


\* C25: for veo (allowed durations 4, 6 and 8 s) the duration sent to the
\* backend, the duration the video stage returns and the duration whose
\* cost is tracked are one value out of 4, 6, 8 s; a request above 5 s and
\* up to 7 s gives 6 s, a request of 5 s gives 4 s, and the builder's
\* thresholds applied to the request give the stage's nearest value.
C25_SnapAgrees ==
    snap.st = "returned" =>
        /\ snap.sent = snap.returned
        /\ snap.tracked = snap.returned
        /\ snap.returned \in {40, 60, 80}
        /\ (snap.requested > 50 /\ snap.requested <= 70) => snap.returned = 60
        /\ snap.requested = 50 => snap.returned = 40
        /\ snap.builder = snap.returned

\* a request of 5.1 s was served with 6 s
C25_Witness ==
    /\ snap.st = "returned"
    /\ snap.requested = 51
    /\ snap.returned = 60


\* backend m has three or more failures on record, the latest of them
\* within resetTimeout
CircuitOpen(f, m) == f[m].count >= 3 /\ ~f[m].expired

\* C26: no video call is issued to a backend whose circuit is open at that
\* moment, be it a first attempt or a retry, with one scene or two at work;
\* a backend passed over without any call has an entry in the errors list.
C26_NoCallWhileOpen ==
    [][\A i \in 1..totalScenes :
          LET t == task[i]
              u == task'[i]
              models == Models(req.modelChain)
          IN  /\ Len(u.tried) > Len(t.tried) =>
                     ~CircuitOpen(failures', models[u.tried[Len(u.tried)]])
              /\ \A k \in 1..Len(models) :
                     (CallsTo(u, k) = 0 /\ (u.err = "AllFailed" \/ (u.st = "video" /\ u.k > k)))
                         => \E x \in 1..Len(u.errors) : u.errors[x] = k
      ]_vars

\* of two scenes sharing veo, one was waiting to retry when the failures
\* of the other opened the circuit; its retry was skipped without a call
C26_Witness ==
    /\ totalScenes = 2
    /\ ~aborted
    /\ CircuitOpen(failures, Veo)
    /\ Remaining(currentCost) >= 8 * getModelCost(Veo)
    /\ \E i \in 1..totalScenes :
           /\ task[i].tried = <<1>>
           /\ task[i].msg # "none"
           /\ task[i].err = "AllFailed"


\* C27: a video call that yields a valid clip URL clears the backend's
\* breaker record, adds duration x cost per second to the cumulative cost
\* once, and its clip is returned to the scene, which is not failed.
C27_ClipClearsTracksReturns ==
    [][\A i \in 1..totalScenes :
          LET t == task[i]
              u == task'[i]
          IN  (t.st = "video" /\ t.urlFrom = 0 /\ u.urlFrom # 0) =>
                  LET m == Models(req.modelChain)[u.urlFrom]
                  IN  /\ failures'[m] = NoRecord
                      /\ currentCost' = currentCost
                            + ActualDuration(m, calculatedSceneDuration) * getModelCost(m)
                      /\ u.clip = u.urlFrom
                      /\ u.err = "none"
      ]_vars


\* C28: when a video call fails (no valid URL: a timeout, an invalid URL, a
\* remote error or a 429), a failure of its backend is on the breaker's
\* record by the time the stage goes on, that is before it waits for a
\* retry or calls again.
C28_FailureRecordedAtOnce ==
    [][\A i \in 1..totalScenes :
          LET t == task[i]
              u == task'[i]
          IN  (t.st = "video" /\ u # t /\ u.urlFrom = 0) =>
                  LET m == Models(req.modelChain)[t.k]
                  IN  failures'[m].count >= failures[m].count + 1
      ]_vars


\* C29: for one scene no backend is called more than 1 + MAX_RETRIES = 4
\* times, however often it answers 429; when its fourth call has failed
\* the stage has an entry for it and calls, if anything, a later backend
\* of the chain.
C29_RetriesBounded ==
    [][\A i \in 1..totalScenes :
          LET t == task[i]
              u == task'[i]
          IN  /\ \A k \in 1..Len(Models(req.modelChain)) : CallsTo(u, k) <= 4
              /\ (t.st = "video" /\ CallsTo(t, t.k) = 4 /\ u # t /\ u.urlFrom = 0) =>
                     /\ u.st # "retryWait"
                     /\ \E x \in 1..Len(u.errors) : u.errors[x] = t.k
                     /\ IF t.k < Len(Models(req.modelChain)) /\ ~AbortObserved
                        THEN (u.st = "video" /\ u.k > t.k) \/ u.err = "AllFailed"
                        ELSE u.err \in {"AllFailed", "GenerationAborted"}
      ]_vars

\* the first backend answered 429 four times and the second was called
C29_Witness ==
    \E i \in 1..totalScenes :
        /\ task[i].tried = <<1, 1, 1, 1, 2>>
        /\ task[i].errors = <<1>>
        /\ task[i].depth = 0


\* C30: when the rate limiter denies the script call of a scene, no text
\* call and no video call is issued for it, no script is substituted, the
\* scene is finalized as failed with the rate-limit error, and the run
\* goes on to the next scene (unless the token has tripped).
C30_DeniedScriptFailsScene ==
    \A i \in 1..totalScenes :
        task[i].scriptDenied =>
            /\ <<i, "script">> \notin calls
            /\ <<i, "video">> \notin calls
            /\ task[i].script = "none"
            /\ task[i].st = "resolved"
            /\ task[i].err = "RateLimit"
            /\ Cardinality(FailureEntries(i)) = 1
            /\ \A n \in Records(i) : ~scenes[n].success /\ ~scenes[n].aborted
            /\ Cardinality(Records(i)) = 1
            /\ (i < totalScenes /\ ~aborted) =>
                   (task[i + 1].st # "idle" \/ pc = "delay")

\* the limiter denied the second scene and the third was started
C30_Witness ==
    /\ totalScenes = 3
    /\ task[2].scriptDenied
    /\ task[3].st # "idle"
    /\ ~aborted


\* C31: once the token has tripped no remote stage is started for any
\* scene: no script call, no video call, first or retry, and no download.
C31_NoStageAfterTrip ==
    [][aborted =>
          /\ calls' = calls
          /\ \A i \in 1..totalScenes : Len(task'[i].tried) = Len(task[i].tried)
      ]_vars


\* C32: once a cost-tracking call of the run has raised the budget error,
\* the run issues no further script call and no further video call.
C32_NoCallAfterBudgetError ==
    [][lastTrack.raised =>
          /\ \A i \in 1..totalScenes :
                 /\ <<i, "script">> \in calls' => <<i, "script">> \in calls
                 /\ <<i, "video">> \in calls' => <<i, "video">> \in calls
                 /\ Len(task'[i].tried) = Len(task[i].tried)
      ]_vars

\* C33: the record store is called at most once in a run, and only when no
\* scene task of the run is in flight; once the result is being assembled
\* no scene record and no failure entry is added.
C33_RecordOnceWhenQuiet ==
    [][/\ Len(recordCalls') <= 1
       /\ recordCalls' # <<>> =>
              \A j \in 1..totalScenes' :
                  task'[j].st \in {"idle", "resolved", "rejected"}
       /\ result.state # "none" =>
              /\ scenes' = scenes
              /\ failedScenes' = failedScenes
      ]_vars

C33_Witness ==
    /\ Mode = "par"
    /\ pc = "resolved"
    /\ Len(recordCalls) = 1
    /\ recordCalls[1].wasAborted
    /\ Len(scenes) = 2
    /\ Len(Successful(scenes)) = 1

---------------------------------------------------------------------------
(* The progress summary (ProgressTracker, lines 1016-1059)                 *)

\* ProgressTracker.completedScenes when the run assembles its result.
\* notify(sceneNumber, ...) overwrites it with the scene number it is given;
\* every task's last notify follows its scenes.push, and a task that pushes
\* nothing (the throw before its try block) notifies nothing, so the value
\* is the scene number of the record pushed last.
completedScenes(w) ==
    IF w.scenes = <<>> THEN 0 ELSE w.scenes[Len(w.scenes)].scene

\* getSummary().successRate as the fraction num / den (a percentage):
\* ((completedScenes - failedScenes.length) / totalScenes) * 100, or 0
successRate(w) ==
    IF totalScenes > 0
    THEN [num |-> (completedScenes(w) - Len(w.failedScenes)) * 100, den |-> totalScenes]
    ELSE [num |-> 0, den |-> 1]

\* C34: a run that returns without cancellation reports a success rate of
\* 100 x successfulScenes / totalScenes, a value from 0 to 100.
C34_SuccessRateIsShareOfScenes ==
    (pc = "resolved" /\ ~aborted) =>
        LET rate == successRate(World)
        IN  /\ rate.num * totalScenes = 100 * result.successfulScenes * rate.den
            /\ 0 <= rate.num
            /\ rate.num <= 100 * rate.den

\* C35: within one scene task the continuity hook embedded in the scene's
\* video prompt is the hook its script request carried.
C35_PromptHookIsRequestHook ==
    \A i \in 1..totalScenes :
        task[i].promptHook # <<>> =>
            \A r \in 1..Len(scriptRequests) :
                scriptRequests[r].scene = i =>
                    scriptRequests[r].previousSceneEnd = task[i].promptHook[1]

\* the records of scene i in the run's scene list
RecordsOf(i) == {n \in 1..Len(scenes) : scenes[n].scene = i}

\* C36: every scene whose task has settled has exactly one record in the
\* run's scene list, and no scene ever has more than one, whatever the
\* caller's callbacks do.
C36_OneRecordPerScene ==
    \A i \in 1..totalScenes :
        /\ Cardinality(RecordsOf(i)) <= 1
        /\ Settled(task[i]) => Cardinality(RecordsOf(i)) = 1

\* what trackReplicateCost was given for scene i.  The video stage tracks a
\* clip once per scene, when a backend returns a URL: after that the stage
\* returns, or the budget error ends it with every later backend skipped.
TrackedVideoCost(i) ==
    IF task[i].urlFrom = 0 THEN 0
    ELSE LET m == Models(req.modelChain)[task[i].urlFrom]
         IN  ActualDuration(m, calculatedSceneDuration) * getModelCost(m)

RECURSIVE TrackedVideoCostUpTo(_)
TrackedVideoCostUpTo(n) ==
    IF n = 0 THEN 0 ELSE TrackedVideoCost(n) + TrackedVideoCostUpTo(n - 1)

\* C37: the video cost tracked during a run never exceeds the video
\* component of the run's pre-flight estimate.
C37_VideoCostWithinEstimate ==
    totalScenes > 0 =>
        TrackedVideoCostUpTo(totalScenes)
            <= calculateEstimatedCost(req.totalDurationSeconds, calculatedSceneDuration,
                                      SelectedModelName(req)).video

---------------------------------------------------------------------------
(* Progress: every pending remote call is answered and every timer fires   *)

\* the steps that answer a pending call or fire a pending timer
Answered ==
    \/ CreateMovie
    \/ CharactersLoaded
    \/ \E i \in 1..totalScenes : ScriptDone(i)
    \/ \E i \in 1..totalScenes : StageVideoDone(i)
    \/ \E i \in 1..totalScenes : RetryWaitDone(i)
    \/ \E i \in 1..totalScenes : SaveDone(i)
    \/ DelayDone
    \/ RecordDone

\* one scene with two backends; two scenes in sequence; two scenes side by
\* side in a process whose budget has just the room the estimate asks for
FairStarts ==
    {<<Request(1, <<Zeroscope, Veo>>, FALSE, TRUE), 0>>,
     <<Request(2, <<Veo>>, FALSE, TRUE), 0>>,
     <<Request(2, <<Veo>>, TRUE, TRUE),
       MAX_BUDGET - calculateEstimatedCost(16, 8, Veo).total>>}

InitFair ==
    /\ \E start \in FairStarts :
           /\ req = start[1]
           /\ currentCost = start[2]
    /\ pc = "start"
    /\ rejectReason = "none"
    /\ totalScenes = 0
    /\ calculatedSceneDuration = 0
    /\ task = <<>>
    /\ scenes = <<>>
    /\ failedScenes = <<>>
    /\ failures = [m \in KnownModels |-> NoRecord]
    /\ rateLimiters = FreshLimiters
    /\ aborted = FALSE
    /\ result = NoResult
    /\ calls = {}
    /\ notStartedAtTrip = {}
    /\ lastTrack = [n |-> 0, amount |-> 0, before |-> 0, raised |-> FALSE, returned |-> 0]
    /\ recordCalls = <<>>
    /\ storySoFar = <<>>
    /\ previousSceneEnd = 0
    /\ scriptRequests = <<>>
    /\ waits = <<>>
    /\ faults = 0
    /\ ClockRest

NextFair == Answered \/ Abort \/ ElapseMinute

\* a remote call is pending or a timer is running: the states in which a
\* step of Answered is possible, from the guards of its actions (each call
\* has an answer that needs no fault, and a timer just fires)
Due ==
    \/ pc \in {"start", "chars", "delay", "record"}
    \/ /\ pc = "scenes"
       /\ \E i \in 1..totalScenes : task[i].st \in {"script", "video", "retryWait", "save"}

\* Weak fairness of the answering steps, WF_vars(Answered), with ENABLED
\* written out as Due and the steps of Answered told from the others by
\* what they change: abortJob trips the token, the passing of a minute
\* touches only breaker records, limiter windows and the fault count, and
\* every answer moves createMovie, a scene task or the result.
FairAnswers ==
    \/ []<>(~Due)
    \/ []<><<aborted' = aborted>>_<<pc, task, result>>

FairStage == InitFair /\ [][NextFair]_vars /\ FairAnswers

\* C38: every run eventually resolves or rejects, and it issues at most one
\* script call per scene and at most 4 x (chain length) video calls per
\* scene.
C38_RunEndsWithBoundedCalls ==
    /\ <>(pc \in {"resolved", "rejected"})
    /\ [](\A i \in 1..totalScenes :
              /\ Cardinality({r \in 1..Len(scriptRequests) :
                                  scriptRequests[r].scene = i}) <= 1
              /\ Len(task[i].tried) <= 4 * Len(Models(req.modelChain)))

\* a run that ended after eight video calls for its one scene
C38_Witness ==
    /\ pc \in {"resolved", "rejected"}
    /\ \E i \in 1..totalScenes : Len(task[i].tried) = 4 * Len(Models(req.modelChain))

\* C39: once a job's status is aborted or completed, no later call changes
\* its status or its abortedAt / completedAt stamp for as long as the entry
\* stays in the registry.
C39_TerminalStatusStays ==
    [][\A id \in JobIds :
          (/\ jobs[id].status \in {"aborted", "completed"}
           /\ jobs'[id].ctrl = jobs[id].ctrl) =>
              /\ jobs'[id].status = jobs[id].status
              /\ jobs'[id].abortedAt = jobs[id].abortedAt
              /\ jobs'[id].completedAt = jobs[id].completedAt
      ]_vars

=============================================================================
